---- MODULE Spec2Model ----
(***************************************************************************)
(* Optimization engine of trajectory-memory: the marker parser             *)
(* (FindTargets, ReplaceTarget, atomicWrite), the optimization record      *)
(* store (BoltStore optimizations bucket) and the lifecycle manager        *)
(* (SaveProposal, Apply, Reject, Rollback).                                *)
(*                                                                         *)
(* A file's content is a sequence of atoms.  An atom is one character of   *)
(* text ("a", " ", "\n", "\r", "\t", ...), a run of bytes that are no white *)
(* space and no line break, kept whole, or one marker: a substring that    *)
(* matches one of the marker regular expressions, kept whole because the   *)
(* code never looks inside it except to extract its attributes.            *)
(***************************************************************************)
EXTENDS Integers, Sequences, FiniteSets, TLC

VARIABLES
    files,      \* the file system: path -> content of the file (existing files only)
    store,      \* the "optimizations" bucket: record id -> OptimizationRecord
    clock,      \* the wall clock, what time.Now() returns
    last,       \* the last call made and the error it returned
    located,    \* the targets a caller of the parser holds from its last FindTargets
    aw,         \* one atomicWrite in progress: its position, its temp file, its result
    sessions,   \* the "sessions" bucket: the recorded trajectories, in key (ULID) order
    result,     \* what the last Analyze, Propose or ProposeAll returned to its caller
    conc,       \* concurrent callers: where each one is in its call, and the store
                \* and files as they were when the calls began
    usage,      \* the "strategy_usage" bucket: key -> StrategyUsage
    active      \* the "active" bucket: the id under the key "current", or NoActive

vars == <<files, store, clock, last, located, aw, sessions, result, conc, usage,
          active>>

(***************************************************************************)
(* Bounds                                                                  *)
(***************************************************************************)
\* the clock stops advancing at MaxClock
MaxClock == 2
\* the lifecycle and the parser specification make at most MaxCalls calls that write
\* the document or change a record
MaxCalls == 2
\* the recording specification starts at most MaxStarts recordings
MaxStarts == 2
\* the analyzer specification starts from buckets of at most MaxSessions sessions
MaxSessions == 4
\* the pattern specification starts from cohorts of at most MaxCohort sessions
MaxCohort == 5
\* the curation specification starts from buckets of MaxCurate high sessions
MaxCurate == 4
\* the session specification stops posting steps when a session holds MaxSteps steps
MaxSteps == 2
\* the diff specification saves texts of at most MaxDiffLen bytes
MaxDiffLen == 2
\* the parser specification stops replacing when the file would grow past MaxDocLen atoms
MaxDocLen == 18

(***************************************************************************)
(* Bytes and markers                                                       *)
(***************************************************************************)
NL == "\n"
CR == "\r"
SP == " "
TAB == "\t"
FF == "\f"
\* the vertical tab, the byte 0x0B, for which the strings of TLA+ have no escape
VT == "\\v"
\* a character outside ASCII is the atom that spells its code point: U+0085 (next
\* line) and U+00A0 (no-break space), the white space of Latin-1 outside ASCII
NEL == "\\u0085"
NBSP == "\\u00A0"
\* the characters above Latin-1 with the property White_Space
WideSpaces == {"\\u1680", "\\u2000", "\\u2001", "\\u2002", "\\u2003", "\\u2004",
               "\\u2005", "\\u2006", "\\u2007", "\\u2008", "\\u2009", "\\u200A",
               "\\u2028", "\\u2029", "\\u202F", "\\u205F", "\\u3000"}

\* the markers of the documents, byte for byte
StartResearch == "<!-- trajectory-optimize:start tag=\"research\" -->"
StartReview == "<!-- trajectory-optimize:start tag=\"review\" min_sessions=20 -->"
\* a start marker without the tag attribute
StartNoTag == "<!-- trajectory-optimize:start min_sessions=5 -->"
StartResearchMin2 == "<!-- trajectory-optimize:start tag=\"research\" min_sessions=2 -->"
StartReviewMin2 == "<!-- trajectory-optimize:start tag=\"review\" min_sessions=2 -->"
EndMarker == "<!-- trajectory-optimize:end -->"

\* the compact form of the documentation and the tests, which neither regular
\* expression matches: "trajectory-optimize:" is followed by the label, not by
\* "start" or "end", and the closing marker has a "/" before it
CompactStart == "<!-- trajectory-optimize:research min_sessions=5 -->"
CompactEnd == "<!-- /trajectory-optimize:research -->"

optimizeStartPattern == {StartResearch, StartReview, StartNoTag, StartResearchMin2,
                         StartReviewMin2}
optimizeEndPattern == {EndMarker}

ExamplesResearch == "<!-- trajectory-examples:start tag=\"research\" -->"
ExamplesReview ==
    "<!-- trajectory-examples:start tag=\"review\" max=5 include_negative=false -->"
ExamplesEnd == "<!-- trajectory-examples:end -->"

examplesStartPattern == {ExamplesResearch, ExamplesReview}
examplesEndPattern == {ExamplesEnd}

ErrNone == "nil"
ErrUnpairedMarkers == "unpaired optimization markers"
ErrNestedMarkers == "nested optimization markers are not supported"
ErrMissingTag == "missing required 'tag' attribute in optimization marker"
ErrOpen == "failed to open file"
ErrReadingFile == "error reading file"
\* bufio.ErrTooLong
ErrTooLong == "bufio.Scanner: token too long"
ErrRead == "failed to read file"
ErrInvalidRange == "invalid line range"
ErrOptimizationNotFound == "optimization record not found"
ErrOptimizationNotProposed == "optimization is not in proposed status"
ErrOptimizationNotApplied == "optimization is not in accepted status"
ErrTargetNotFound == "optimization target not found in file"
ErrParseFile == "failed to parse file"
ErrReplaceContent == "failed to replace content"
ErrRestoreContent == "failed to restore content"
ErrNoTargets == "no optimization targets found in file"
ErrNoTargetForTag == "no target found for tag"
ErrNoExamplesTarget == "no examples target found for tag"

OptStatusProposed == "proposed"
OptStatusAccepted == "accepted"
OptStatusRejected == "rejected"
OptStatusRolledBack == "rolled_back"

(***************************************************************************)
(* strings: Split, Join, TrimSpace, the bufio line scanner                 *)
(***************************************************************************)
RECURSIVE SplitAcc(_, _, _, _)
SplitAcc(s, sep, i, cur) ==
    IF i > Len(s) THEN <<cur>>
    ELSE IF s[i] = sep THEN <<cur>> \o SplitAcc(s, sep, i + 1, <<>>)
    ELSE SplitAcc(s, sep, i + 1, Append(cur, s[i]))

\* strings.Split(s, sep): always at least one piece
Split(s, sep) == SplitAcc(s, sep, 1, <<>>)

RECURSIVE Join(_, _)
\* strings.Join(pieces, sep)
Join(pieces, sep) ==
    IF Len(pieces) = 0 THEN <<>>
    ELSE IF Len(pieces) = 1 THEN pieces[1]
    ELSE pieces[1] \o <<sep>> \o Join(Tail(pieces), sep)

RECURSIVE Concat(_)
\* what a strings.Builder holds after the pieces were written to it in order
Concat(pieces) ==
    IF Len(pieces) = 0 THEN <<>> ELSE pieces[1] \o Concat(Tail(pieces))

\* unicode.IsSpace: in Latin-1 the characters \t, \n, \v, \f, \r, the space,
\* U+0085 and U+00A0; above it the characters with the property White_Space
IsSpace(c) == c \in {TAB, NL, VT, FF, CR, SP, NEL, NBSP} \cup WideSpaces

RECURSIVE TrimLeft(_)
TrimLeft(s) ==
    IF Len(s) > 0 /\ IsSpace(s[1]) THEN TrimLeft(Tail(s)) ELSE s

RECURSIVE TrimRight(_)
TrimRight(s) ==
    IF Len(s) > 0 /\ IsSpace(s[Len(s)]) THEN TrimRight(SubSeq(s, 1, Len(s) - 1)) ELSE s

\* strings.TrimSpace
TrimSpace(s) == TrimRight(TrimLeft(s))

\* bufio.ScanLines' dropCR: one trailing \r is dropped from a line
dropCR(line) ==
    IF Len(line) > 0 /\ line[Len(line)] = CR THEN SubSeq(line, 1, Len(line) - 1) ELSE line

\* bufio.MaxScanTokenSize, the largest buffer a Scanner made by NewScanner grows to
MaxScanTokenSize == 65536

\* the hexadecimal digits, in upper and in lower case
HexUpper == "0123456789ABCDEF"
HexLower == "0123456789abcdef"
IsHexDigit(c) == \E i \in 1..16 : c \in {SubSeq(HexUpper, i, i), SubSeq(HexLower, i, i)}
HexValue(c) ==
    (CHOOSE i \in 1..16 : c \in {SubSeq(HexUpper, i, i), SubSeq(HexLower, i, i)}) - 1

\* the atom spells the code point of a character outside ASCII
IsCodePoint(c) ==
    /\ Len(c) = 6
    /\ SubSeq(c, 1, 2) = "\\u"
    /\ \A i \in 3..6 : IsHexDigit(SubSeq(c, i, i))

\* the code point the atom spells
CodePoint(c) ==
    4096 * HexValue(SubSeq(c, 3, 3)) + 256 * HexValue(SubSeq(c, 4, 4))
       + 16 * HexValue(SubSeq(c, 5, 5)) + HexValue(SubSeq(c, 6, 6))

\* utf8.RuneLen for a character of the basic plane
RuneLen(r) == IF r < 128 THEN 1 ELSE IF r < 2048 THEN 2 ELSE 3

\* the bytes an atom takes in the file (UTF-8): one for the vertical tab, the
\* length of the encoding for a character outside ASCII, and for a run of ASCII
\* characters their number
AtomBytes(c) ==
    IF c = VT THEN 1
    ELSE IF IsCodePoint(c) THEN RuneLen(CodePoint(c))
    ELSE Len(c)

RECURSIVE LenBytes(_)
\* len(line) in bytes
LenBytes(line) == IF Len(line) = 0 THEN 0 ELSE AtomBytes(line[1]) + LenBytes(Tail(line))

\* The pieces bufio.ScanLines cuts the text into: the text up to each \n, and the
\* text after the last \n when it is not empty.
ScanPieces(s) ==
    LET pieces == Split(s, NL)
    IN IF pieces[Len(pieces)] = <<>> THEN SubSeq(pieces, 1, Len(pieces) - 1) ELSE pieces

\* What a bufio.Scanner over the text does: the lines scanner.Scan() yields, each
\* without its trailing \r, and what scanner.Err() returns after the last of them.
\* Scan stops with ErrTooLong at the first piece that fills the buffer before its
\* line break is seen, which is a piece of MaxScanTokenSize bytes or more.
NewScanner(s) ==
    LET pieces == ScanPieces(s)
        long == {i \in 1..Len(pieces) : LenBytes(pieces[i]) >= MaxScanTokenSize}
        n == IF long = {} THEN Len(pieces)
             ELSE (CHOOSE i \in long : \A j \in long : i <= j) - 1
    IN [lines |-> [i \in 1..n |-> dropCR(pieces[i])],
        err |-> IF long = {} THEN ErrNone ELSE ErrTooLong]

\* regexp FindStringSubmatch of the start pattern in a line: the leftmost marker
FirstIn(line, pattern) ==
    LET hits == {i \in 1..Len(line) : line[i] \in pattern}
    IN IF hits = {} THEN 0 ELSE CHOOSE i \in hits : \A j \in hits : i <= j

\* parseOptimizeAttrs: the tag (required) and min_sessions (default 10)
parseOptimizeAttrs(marker) ==
    IF marker = StartResearch THEN [tag |-> "research", minSessions |-> 10, err |-> ErrNone]
    ELSE IF marker = StartReview THEN [tag |-> "review", minSessions |-> 20, err |-> ErrNone]
    ELSE IF marker = StartResearchMin2
    THEN [tag |-> "research", minSessions |-> 2, err |-> ErrNone]
    ELSE IF marker = StartReviewMin2
    THEN [tag |-> "review", minSessions |-> 2, err |-> ErrNone]
    ELSE [tag |-> "", minSessions |-> 0, err |-> ErrMissingTag]

(***************************************************************************)
(* Parser.FindTargets                                                      *)
(***************************************************************************)
NoPending == [active |-> FALSE, tag |-> "", minSessions |-> 0, startLine |-> 0,
              content |-> <<>>]

RECURSIVE FindTargetsLoop(_, _, _, _, _)
\* the scanner loop without its test for an open region at a start marker: the
\* inner start marker opens the region anew and the nesting is flattened
FindTargetsLoopFlattens(filePath, scanner, lineNum, currentStart, targets) ==
    IF lineNum > Len(scanner.lines)
    THEN IF scanner.err # ErrNone
         THEN [err |-> ErrReadingFile, targets |-> <<>>]
         ELSE IF currentStart.active
         THEN [err |-> ErrUnpairedMarkers, targets |-> <<>>]
         ELSE [err |-> ErrNone, targets |-> targets]
    ELSE
    LET line == scanner.lines[lineNum]
        s == FirstIn(line, optimizeStartPattern)
        e == FirstIn(line, optimizeEndPattern)
    IN IF s # 0
       THEN IF FALSE
            THEN [err |-> ErrNestedMarkers, targets |-> <<>>]
            ELSE LET attrs == parseOptimizeAttrs(line[s])
                 IN IF attrs.err # ErrNone
                    THEN [err |-> attrs.err, targets |-> <<>>]
                    ELSE FindTargetsLoop(filePath, scanner, lineNum + 1,
                            [active |-> TRUE, tag |-> attrs.tag,
                             minSessions |-> attrs.minSessions,
                             startLine |-> lineNum, content |-> <<>>],
                            targets)
       ELSE IF e # 0
       THEN IF ~currentStart.active
            THEN [err |-> ErrUnpairedMarkers, targets |-> <<>>]
            ELSE FindTargetsLoop(filePath, scanner, lineNum + 1, NoPending,
                    Append(targets,
                           [FilePath |-> filePath,
                            Tag |-> currentStart.tag,
                            MinSessions |-> currentStart.minSessions,
                            StartLine |-> currentStart.startLine,
                            EndLine |-> lineNum,
                            Content |-> TrimSpace(currentStart.content)]))
       ELSE IF currentStart.active
       THEN FindTargetsLoop(filePath, scanner, lineNum + 1,
                [currentStart EXCEPT !.content =
                    IF Len(currentStart.content) > 0
                    THEN currentStart.content \o <<NL>> \o line
                    ELSE line],
                targets)
       ELSE FindTargetsLoop(filePath, scanner, lineNum + 1, currentStart, targets)

\* the scanner loop of FindTargets from line lineNum on, and what follows it when
\* scanner.Scan() returns false; currentStart is the open region (pendingTarget),
\* targets the regions closed so far
FindTargetsLoop(filePath, scanner, lineNum, currentStart, targets) ==
    IF lineNum > Len(scanner.lines)
    THEN IF scanner.err # ErrNone
         THEN [err |-> ErrReadingFile, targets |-> <<>>]
         ELSE IF currentStart.active
         THEN [err |-> ErrUnpairedMarkers, targets |-> <<>>]
         ELSE [err |-> ErrNone, targets |-> targets]
    ELSE
    LET line == scanner.lines[lineNum]
        s == FirstIn(line, optimizeStartPattern)
        e == FirstIn(line, optimizeEndPattern)
    IN IF s # 0
       THEN IF currentStart.active
            THEN [err |-> ErrNestedMarkers, targets |-> <<>>]
            ELSE LET attrs == parseOptimizeAttrs(line[s])
                 IN IF attrs.err # ErrNone
                    THEN [err |-> attrs.err, targets |-> <<>>]
                    ELSE FindTargetsLoop(filePath, scanner, lineNum + 1,
                            [active |-> TRUE, tag |-> attrs.tag,
                             minSessions |-> attrs.minSessions,
                             startLine |-> lineNum, content |-> <<>>],
                            targets)
       ELSE IF e # 0
       THEN IF ~currentStart.active
            THEN [err |-> ErrUnpairedMarkers, targets |-> <<>>]
            ELSE FindTargetsLoop(filePath, scanner, lineNum + 1, NoPending,
                    Append(targets,
                           [FilePath |-> filePath,
                            Tag |-> currentStart.tag,
                            MinSessions |-> currentStart.minSessions,
                            StartLine |-> currentStart.startLine,
                            EndLine |-> lineNum,
                            Content |-> TrimSpace(currentStart.content)]))
       ELSE IF currentStart.active
       THEN FindTargetsLoop(filePath, scanner, lineNum + 1,
                [currentStart EXCEPT !.content =
                    IF Len(currentStart.content) > 0
                    THEN currentStart.content \o <<NL>> \o line
                    ELSE line],
                targets)
       ELSE FindTargetsLoop(filePath, scanner, lineNum + 1, currentStart, targets)

\* Parser.FindTargets on the file system fs: the regions of the file, or an error
FindTargets(fs, filePath) ==
    IF filePath \notin DOMAIN fs
    THEN [err |-> ErrOpen, targets |-> <<>>]
    ELSE FindTargetsLoop(filePath, NewScanner(fs[filePath]), 1, NoPending, <<>>)

(***************************************************************************)
(* Parser.FindExamplesTargets                                              *)
(***************************************************************************)
\* parseExamplesAttrs: the tag (required), max (default 3) and include_negative
\* (default true)
parseExamplesAttrs(marker) ==
    IF marker = ExamplesResearch
    THEN [tag |-> "research", maxExamples |-> 3, includeNegative |-> TRUE, err |-> ErrNone]
    ELSE IF marker = ExamplesReview
    THEN [tag |-> "review", maxExamples |-> 5, includeNegative |-> FALSE, err |-> ErrNone]
    ELSE [tag |-> "", maxExamples |-> 0, includeNegative |-> FALSE, err |-> ErrMissingTag]

NoPendingExamples == [active |-> FALSE, tag |-> "", maxExamples |-> 0,
                      includeNegative |-> FALSE, startLine |-> 0, content |-> <<>>]

RECURSIVE FindExamplesTargetsLoop(_, _, _, _, _)
\* the scanner loop of FindExamplesTargets from line lineNum on; currentStart is the
\* open region (pendingExamplesTarget), targets the regions closed so far
FindExamplesTargetsLoop(filePath, scanner, lineNum, currentStart, targets) ==
    IF lineNum > Len(scanner.lines)
    THEN IF scanner.err # ErrNone
         THEN [err |-> ErrReadingFile, targets |-> <<>>]
         ELSE IF currentStart.active
         THEN [err |-> ErrUnpairedMarkers, targets |-> <<>>]
         ELSE [err |-> ErrNone, targets |-> targets]
    ELSE
    LET line == scanner.lines[lineNum]
        s == FirstIn(line, examplesStartPattern)
        e == FirstIn(line, examplesEndPattern)
    IN IF s # 0
       THEN IF currentStart.active
            THEN [err |-> ErrNestedMarkers, targets |-> <<>>]
            ELSE LET attrs == parseExamplesAttrs(line[s])
                 IN IF attrs.err # ErrNone
                    THEN [err |-> attrs.err, targets |-> <<>>]
                    ELSE FindExamplesTargetsLoop(filePath, scanner, lineNum + 1,
                            [active |-> TRUE, tag |-> attrs.tag,
                             maxExamples |-> attrs.maxExamples,
                             includeNegative |-> attrs.includeNegative,
                             startLine |-> lineNum, content |-> <<>>],
                            targets)
       ELSE IF e # 0
       THEN IF ~currentStart.active
            THEN [err |-> ErrUnpairedMarkers, targets |-> <<>>]
            ELSE FindExamplesTargetsLoop(filePath, scanner, lineNum + 1, NoPendingExamples,
                    Append(targets,
                           [FilePath |-> filePath,
                            Tag |-> currentStart.tag,
                            MaxExamples |-> currentStart.maxExamples,
                            IncludeNegative |-> currentStart.includeNegative,
                            StartLine |-> currentStart.startLine,
                            EndLine |-> lineNum,
                            Content |-> TrimSpace(currentStart.content)]))
       ELSE IF currentStart.active
       THEN FindExamplesTargetsLoop(filePath, scanner, lineNum + 1,
                [currentStart EXCEPT !.content =
                    IF Len(currentStart.content) > 0
                    THEN currentStart.content \o <<NL>> \o line
                    ELSE line],
                targets)
       ELSE FindExamplesTargetsLoop(filePath, scanner, lineNum + 1, currentStart, targets)

\* Parser.FindExamplesTargets on the file system fs
FindExamplesTargets(fs, filePath) ==
    IF filePath \notin DOMAIN fs
    THEN [err |-> ErrOpen, targets |-> <<>>]
    ELSE FindExamplesTargetsLoop(filePath, NewScanner(fs[filePath]), 1,
                                 NoPendingExamples, <<>>)

(***************************************************************************)
(* atomicWrite, one step at a time                                         *)
(***************************************************************************)
\* where an atomicWrite can fail: nowhere, or at one of its system calls
AwFailures == {"none", "create", "write", "close", "chmod", "rename"}

AwIdle == [pc |-> "idle", path |-> "", content |-> <<>>, failAt |-> "none",
           tmp |-> <<>>, tmpExists |-> FALSE, success |-> FALSE, err |-> ErrNone]

\* the call atomicWrite(filePath, content), about to create its temp file; failAt
\* is the system call the environment will fail
AwCall(filePath, content, failAt) ==
    [pc |-> "create", path |-> filePath, content |-> content, failAt |-> failAt,
     tmp |-> <<>>, tmpExists |-> FALSE, success |-> FALSE, err |-> ErrNone]

\* what a failed WriteString leaves in the temp file: a prefix of the content
PartialWrite(content) == SubSeq(content, 1, Len(content) \div 2)

\* the deferred cleanup with the os.Remove left out
AwCleanupSkipped(w) == [w EXCEPT !.pc = "done"]

\* the deferred cleanup of a failed atomicWrite: os.Remove(tmpPath)
AwCleanup(w) == [w EXCEPT !.pc = "done", !.tmp = <<>>, !.tmpExists = FALSE]

\* One step of atomicWrite on the pair (fs, w): a system call, or the deferred
\* cleanup that runs when the function returns.
AwStep(fs, w) ==
    CASE w.pc = "create" ->
            IF w.failAt = "create"
            THEN [fs |-> fs, w |-> [w EXCEPT !.pc = "done",
                                             !.err = "failed to create temp file"]]
            ELSE [fs |-> fs, w |-> [w EXCEPT !.pc = "write", !.tmpExists = TRUE]]
      [] w.pc = "write" ->
            IF w.failAt = "write"
            THEN [fs |-> fs, w |-> [w EXCEPT !.pc = "cleanup",
                                             !.tmp = PartialWrite(w.content),
                                             !.err = "failed to write temp file"]]
            ELSE [fs |-> fs, w |-> [w EXCEPT !.pc = "close", !.tmp = w.content]]
      [] w.pc = "close" ->
            IF w.failAt = "close"
            THEN [fs |-> fs, w |-> [w EXCEPT !.pc = "cleanup",
                                             !.err = "failed to close temp file"]]
            ELSE [fs |-> fs, w |-> [w EXCEPT !.pc = "chmod"]]
      [] w.pc = "chmod" ->
            IF w.path \in DOMAIN fs /\ w.failAt = "chmod"
            THEN [fs |-> fs, w |-> [w EXCEPT !.pc = "cleanup",
                                             !.err = "failed to set permissions"]]
            ELSE [fs |-> fs, w |-> [w EXCEPT !.pc = "rename"]]
      [] w.pc = "rename" ->
            IF w.failAt = "rename"
            THEN [fs |-> fs, w |-> [w EXCEPT !.pc = "cleanup",
                                             !.err = "failed to rename temp file"]]
            ELSE [fs |-> [p \in DOMAIN fs \cup {w.path} |->
                             IF p = w.path THEN w.tmp ELSE fs[p]],
                  w |-> [w EXCEPT !.pc = "done", !.tmp = <<>>, !.tmpExists = FALSE,
                                  !.success = TRUE]]
      [] w.pc = "cleanup" -> [fs |-> fs, w |-> AwCleanup(w)]
      [] OTHER -> [fs |-> fs, w |-> w]

RECURSIVE AwRun(_, _)
\* atomicWrite run to its return
AwRun(fs, w) ==
    IF w.pc \in {"done", "idle"} THEN [fs |-> fs, w |-> w]
    ELSE LET n == AwStep(fs, w) IN AwRun(n.fs, n.w)

\* atomicWrite(filePath, content) as one call: the file system after it and its error
atomicWrite(fs, filePath, content, failAt) ==
    LET r == AwRun(fs, AwCall(filePath, content, failAt))
    IN [fs |-> r.fs, err |-> r.w.err]

(***************************************************************************)
(* Parser.ReplaceTarget                                                    *)
(***************************************************************************)
\* ReplaceResult with the first loop stopping one line early (i < StartLine-1)
ReplaceResultDropsStart(lines, target, newContent) ==
    LET before == [i \in 1..(target.StartLine - 1) |-> lines[i] \o <<NL>>]
        after == [k \in 1..(Len(lines) - target.EndLine + 1) |->
                     LET i == target.EndLine - 1 + k
                     IN IF i < Len(lines) THEN lines[i] \o <<NL>> ELSE lines[i]]
    IN Concat(before) \o newContent \o <<NL>> \o Concat(after)

\* ReplaceResult with the last loop always writing the line break (no i < len-1 test)
ReplaceResultExtraNewline(lines, target, newContent) ==
    LET before == [i \in 1..target.StartLine |-> lines[i] \o <<NL>>]
        after == [k \in 1..(Len(lines) - target.EndLine + 1) |->
                     lines[target.EndLine - 1 + k] \o <<NL>>]
    IN Concat(before) \o newContent \o <<NL>> \o Concat(after)

\* the text ReplaceTarget builds: the lines up to and including the start marker,
\* the new content, the lines from the end marker on
ReplaceResult(lines, target, newContent) ==
    LET before == [i \in 1..target.StartLine |-> lines[i] \o <<NL>>]
        after == [k \in 1..(Len(lines) - target.EndLine + 1) |->
                     LET i == target.EndLine - 1 + k
                     IN IF i < Len(lines) THEN lines[i] \o <<NL>> ELSE lines[i]]
    IN Concat(before) \o newContent \o <<NL>> \o Concat(after)

\* Parser.ReplaceTarget: the file system after the call and its error
ReplaceTarget(fs, filePath, target, newContent, failAt) ==
    IF filePath \notin DOMAIN fs
    THEN [fs |-> fs, err |-> ErrRead]
    ELSE LET lines == Split(fs[filePath], NL)
         IN IF target.StartLine < 1 \/ target.EndLine > Len(lines)
               \/ target.StartLine >= target.EndLine
            THEN [fs |-> fs, err |-> ErrInvalidRange]
            ELSE atomicWrite(fs, filePath, ReplaceResult(lines, target, newContent),
                             failAt)

(***************************************************************************)
(* generateUnifiedDiff and the optimizations bucket of the store           *)
(***************************************************************************)
\* a diff that writes the added lines only
generateDiffAddedOnly(oldContent, newContent) ==
    LET oldLines == Split(oldContent, NL)
        newLines == Split(newContent, NL)
    IN <<"--- current", NL, "+++ proposed", NL,
         "@@ -1,", ToString(Len(oldLines)), " +1,", ToString(Len(newLines)), " @@", NL>>
       \o Concat([i \in 1..Len(newLines) |-> <<"+">> \o newLines[i] \o <<NL>>])

\* generateUnifiedDiff(oldContent, newContent, "current", "proposed")
generateUnifiedDiff(oldContent, newContent) ==
    LET oldLines == Split(oldContent, NL)
        newLines == Split(newContent, NL)
    IN <<"--- current", NL, "+++ proposed", NL,
         "@@ -1,", ToString(Len(oldLines)), " +1,", ToString(Len(newLines)), " @@", NL>>
       \o Concat([i \in 1..Len(oldLines) |-> <<"-">> \o oldLines[i] \o <<NL>>])
       \o Concat([i \in 1..Len(newLines) |-> <<"+">> \o newLines[i] \o <<NL>>])

\* BoltStore.CreateOptimization: an empty id is replaced by a new ULID, CreatedAt is
\* stamped, and the record is put under its id
CreateOptimization(st, r, ulid, now) ==
    LET id == IF r.ID = "" THEN ulid ELSE r.ID
        rec == [r EXCEPT !.ID = id, !.CreatedAt = now]
    IN [err |-> ErrNone,
        record |-> rec,
        store |-> [k \in DOMAIN st \cup {id} |-> IF k = id THEN rec ELSE st[k]]]

\* the byte order of the record ids of the model
UlidRank(id) ==
    CASE id = "01A" -> 1
      [] id = "01B" -> 2
      [] id = "01C" -> 3
      [] OTHER -> 0

RECURSIVE ListOptimizationsLoop(_, _, _, _, _, _)
\* the cursor loop of ListOptimizations: from the last key backwards over the keys
\* not visited yet, until limit records are collected
ListOptimizationsLoop(st, keys, filePath, tag, limit, results) ==
    IF keys = {} \/ ~(Len(results) < limit) THEN results
    ELSE LET k == CHOOSE k \in keys : \A k2 \in keys : UlidRank(k2) <= UlidRank(k)
             skip == \/ (filePath # "" /\ st[k].TargetFile # filePath)
                     \/ (tag # "" /\ st[k].Tag # tag)
         IN ListOptimizationsLoop(st, keys \ {k}, filePath, tag, limit,
                                  IF skip THEN results ELSE Append(results, st[k]))

\* BoltStore.ListOptimizations
ListOptimizations(st, filePath, tag, limit) ==
    ListOptimizationsLoop(st, DOMAIN st, filePath, tag, limit, <<>>)

\* BoltStore.GetOptimization
GetOptimization(st, id) ==
    IF id \in DOMAIN st
    THEN [err |-> ErrNone, record |-> st[id]]
    ELSE [err |-> ErrOptimizationNotFound, record |-> <<>>]

\* BoltStore.UpdateOptimization
UpdateOptimization(st, r) ==
    IF r.ID \notin DOMAIN st
    THEN [err |-> ErrOptimizationNotFound, store |-> st]
    ELSE [err |-> ErrNone, store |-> [st EXCEPT ![r.ID] = r]]

\* the error of a bolt transaction that does not commit
ErrStoreUpdate == "store update failed"

\* the step of a call at which the update of the store fails
StoreFailures == {"update"}

\* BoltStore.UpdateOptimization in a call whose db.Update fails when failAt says so:
\* nothing is put and the error of the transaction is returned
UpdateOptimizationOn(st, r, failAt) ==
    IF failAt \in StoreFailures
    THEN [err |-> ErrStoreUpdate, store |-> st]
    ELSE UpdateOptimization(st, r)

(***************************************************************************)
(* The sessions bucket and the Analyzer.  A score is held in hundredths    *)
(* (0.75 is 75); a task prompt and a summary are sequences of words.       *)
(***************************************************************************)
ErrInsufficientData == "insufficient scored sessions for analysis"

\* HighScoreThreshold = 0.75, LowScoreThreshold = 0.5, in hundredths
HighScoreThreshold == 75
LowScoreThreshold == 50
\* a.store.SearchSessions(tag, 1000)
SearchLimit == 1000
\* a.selectDiverse(high, 3)
MaxHighExamples == 3

\* an Outcome pointer that is nil
NoOutcome == [set |-> FALSE, Score |-> 0, Notes |-> <<>>]

\* the letters strings.ToLower changes, and what it changes them to
UpperLetters == "ABCDEFGHIJKLMNOPQRSTUVWXYZ"
LowerLetters == "abcdefghijklmnopqrstuvwxyz"
LowerOf ==
    [c \in {SubSeq(UpperLetters, i, i) : i \in 1..Len(UpperLetters)} |->
        LET i == CHOOSE i \in 1..Len(UpperLetters) : SubSeq(UpperLetters, i, i) = c
        IN SubSeq(LowerLetters, i, i)]

\* unicode.ToLower on one letter, given as a string of length 1
ToLowerChar(c) == IF c \in DOMAIN LowerOf THEN LowerOf[c] ELSE c

RECURSIVE ToLowerChars(_)
\* strings.ToLower on a string, letter by letter
ToLowerChars(w) ==
    IF Len(w) = 0 THEN w
    ELSE IF Len(w) = 1 THEN ToLowerChar(w)
    ELSE ToLowerChars(SubSeq(w, 1, Len(w) \div 2))
            \o ToLowerChars(SubSeq(w, Len(w) \div 2 + 1, Len(w)))

\* the words the corpora and the inputs of the specifications are written with
Vocabulary ==
    {"research", "review", "Research", "find", "sources", "papers", "facts", "check",
     "write", "report", "summarize", "done", "good", "fast", "quickly", "now", "the",
     "a", "notes", "NOTES", ".md", ".MD", ".txt", "", "research:x"}

\* ToLowerChars on the words of the vocabulary, computed once
LowerWords == [w \in Vocabulary |-> ToLowerChars(w)]

\* strings.ToLower
ToLower(w) == IF w \in Vocabulary THEN LowerWords[w] ELSE ToLowerChars(w)

\* strings.Contains(s, substr)
Contains(s, substr) ==
    \E i \in 1..(Len(s) - Len(substr) + 1) : SubSeq(s, i, i + Len(substr) - 1) = substr

RECURSIVE TextOf(_)
\* the string a text of words stands for: its words with one space between them
TextOf(text) ==
    IF Len(text) = 0 THEN ""
    ELSE IF Len(text) = 1 THEN text[1]
    ELSE text[1] \o " " \o TextOf(Tail(text))

\* strings.ToLower of the string a text of words stands for
LowerText(text) == TextOf([i \in 1..Len(text) |-> ToLower(text[i])])

\* BoltStore.matchesQuery: the query is a substring of the lower-cased task prompt,
\* summary or one of the tags
matchesQuery(session, query) ==
    \/ Contains(LowerText(session.TaskPrompt), query)
    \/ Contains(LowerText(session.Summary), query)
    \/ \E i \in 1..Len(session.Tags) : Contains(ToLower(session.Tags[i]), query)

\* strings.HasSuffix
HasSuffix(s, suffix) ==
    Len(s) >= Len(suffix) /\ SubSeq(s, Len(s) - Len(suffix) + 1, Len(s)) = suffix

\* types.MaxInputSummaryLen and types.MaxOutputSummaryLen
MaxInputSummaryLen == 500
MaxOutputSummaryLen == 500

\* types.TruncateString: s[:maxLen] when s is longer than maxLen
TruncateString(s, maxLen) == IF Len(s) <= maxLen THEN s ELSE SubSeq(s, 1, maxLen)

RECURSIVE Repeat(_, _)
\* strings.Repeat
Repeat(s, count) ==
    IF count = 0 THEN ""
    ELSE IF count % 2 = 1 THEN s \o Repeat(s, count - 1)
    ELSE Repeat(s, count \div 2) \o Repeat(s, count \div 2)

Reverse(s) == [i \in 1..Len(s) |-> s[Len(s) + 1 - i]]

\* the bytes of the keys of the buckets, in increasing order
KeyBytes ==
    " !\"#$%&'()*+,-./0123456789:;<=>?@ABCDEFGHIJKLMNOPQRSTUVWXYZ[\\]^_abcdefghijklmnopqrstuvwxyz{|}~"

\* the place of a byte in that order
ByteRank ==
    [c \in {SubSeq(KeyBytes, i, i) : i \in 1..Len(KeyBytes)} |->
        CHOOSE i \in 1..Len(KeyBytes) : SubSeq(KeyBytes, i, i) = c]

RECURSIVE IdLess(_, _)
\* bytes.Compare(a, b) < 0, the order of the keys of a bucket
IdLess(a, b) ==
    IF Len(b) = 0 THEN FALSE
    ELSE IF Len(a) = 0 THEN TRUE
    ELSE IF SubSeq(a, 1, 1) # SubSeq(b, 1, 1)
    THEN ByteRank[SubSeq(a, 1, 1)] < ByteRank[SubSeq(b, 1, 1)]
    ELSE IdLess(SubSeq(a, 2, Len(a)), SubSeq(b, 2, Len(b)))

\* BoltStore.SearchSessions: the bucket walked from its last key to its first, the
\* matching sessions collected until there are limit of them
SearchSessions(ss, query, limit) ==
    LET hits == SelectSeq(Reverse(ss), LAMBDA s : matchesQuery(s, ToLower(query)))
    IN SubSeq(hits, 1, IF Len(hits) < limit THEN Len(hits) ELSE limit)

\* BoltStore.GetSession: the session under the id, none when there is none
GetSession(ss, id) == SelectSeq(ss, LAMBDA s : s.ID = id)

\* the ids of the metadata SearchSessions(tag, 1000) returns to getSessionsByTag
SearchMetas(ss, tag) ==
    LET metas == SearchSessions(ss, tag, SearchLimit)
    IN [i \in 1..Len(metas) |-> metas[i].ID]

\* one turn of the loop of Analyzer.getSessionsByTag: GetSession(meta.ID), a session
\* that is not found skipped, a session that carries exactly the tag appended to the
\* sessions found before (byTag)
getSessionsByTagTurn(ss, id, tag, byTag) ==
    LET got == GetSession(ss, id)
    IN IF Len(got) = 0 THEN byTag
       ELSE IF \E i \in 1..Len(got[1].Tags) : got[1].Tags[i] = tag
       THEN Append(byTag, got[1])
       ELSE byTag

RECURSIVE getSessionsByTagLoop(_, _, _, _)
\* the loop of getSessionsByTag over the metadata, on a bucket that is not written
\* between its turns
getSessionsByTagLoop(ss, metas, tag, byTag) ==
    IF Len(metas) = 0 THEN byTag
    ELSE getSessionsByTagLoop(ss, Tail(metas), tag,
                              getSessionsByTagTurn(ss, metas[1], tag, byTag))

\* Analyzer.getSessionsByTag on a bucket that is not written during the call
getSessionsByTag(ss, tag) == getSessionsByTagLoop(ss, SearchMetas(ss, tag), tag, <<>>)

RECURSIVE SumScores(_)
SumScores(list) ==
    IF Len(list) = 0 THEN 0
    ELSE (IF list[1].Outcome.set THEN list[1].Outcome.Score ELSE 0) + SumScores(Tail(list))

\* calculateAvgScore: sum / len as the fraction num/den, 0 for an empty list
calculateAvgScore(list) ==
    IF Len(list) = 0 THEN [num |-> 0, den |-> 1]
    ELSE [num |-> SumScores(list), den |-> Len(list)]

\* the switch with > for >=: a score on a threshold falls in the cohort below
CohortOfStrict(s) ==
    IF s.Outcome.Score > HighScoreThreshold THEN "high"
    ELSE IF s.Outcome.Score > LowScoreThreshold THEN "medium"
    ELSE "low"

\* the switch of Analyze over the scored sessions
CohortOf(s) ==
    IF s.Outcome.Score >= HighScoreThreshold THEN "high"
    ELSE IF s.Outcome.Score >= LowScoreThreshold THEN "medium"
    ELSE "low"

RECURSIVE InsertByScore(_, _, _)
\* one pass of the insertion sort sort.Slice runs on a slice of at most 12 elements:
\* x moves left while less(x, its left neighbour); dir is -1 for descending scores
InsertByScore(sorted, x, dir) ==
    IF Len(sorted) = 0
       \/ ~(dir * x.Outcome.Score < dir * sorted[Len(sorted)].Outcome.Score)
    THEN Append(sorted, x)
    ELSE Append(InsertByScore(SubSeq(sorted, 1, Len(sorted) - 1), x, dir),
                sorted[Len(sorted)])

RECURSIVE SortByScore(_, _)
\* sort.Slice(list, less) by score: ascending for dir = 1, descending for dir = -1
SortByScore(list, dir) ==
    IF Len(list) = 0 THEN <<>>
    ELSE InsertByScore(SortByScore(SubSeq(list, 1, Len(list) - 1), dir),
                       list[Len(list)], dir)

\* the stop words of tokenize
StopWords == {"the", "a", "an", "and", "or", "to", "in", "for", "of", "on", "with",
              "this", "that", "is", "are"}
\* the characters a word of tokenize is made of: a-z and 0-9
WordChars ==
    LET chars == "abcdefghijklmnopqrstuvwxyz0123456789"
    IN {SubSeq(chars, i, i) : i \in 1..Len(chars)}

RECURSIVE FieldsFuncLoop(_, _, _, _)
\* the walk of strings.FieldsFunc with the function of tokenize: word is the field
\* that character i may continue, and every character outside a-z0-9 ends a field
FieldsFuncLoop(s, i, word, words) ==
    IF i > Len(s) THEN (IF Len(word) > 0 THEN Append(words, word) ELSE words)
    ELSE IF SubSeq(s, i, i) \notin WordChars
    THEN FieldsFuncLoop(s, i + 1, "", IF Len(word) > 0 THEN Append(words, word) ELSE words)
    ELSE FieldsFuncLoop(s, i + 1, word \o SubSeq(s, i, i), words)

\* tokenize: the text in lower case, cut into words at every character that is no
\* letter a-z and no digit; the stop words and the words of one or two letters are
\* dropped
tokenize(text) ==
    SelectSeq(FieldsFuncLoop(LowerText(text), 1, "", <<>>),
              LAMBDA w : w \notin StopWords /\ Len(w) > 2)

\* jaccardSimilarity as the fraction num/den
jaccardSimilarity(a, b) ==
    IF Len(a) = 0 /\ Len(b) = 0 THEN [num |-> 1, den |-> 1]
    ELSE IF Len(a) = 0 \/ Len(b) = 0 THEN [num |-> 0, den |-> 1]
    ELSE LET setA == {a[i] : i \in 1..Len(a)}
             setB == {b[i] : i \in 1..Len(b)}
         IN [num |-> Cardinality(setA \cap setB), den |-> Cardinality(setA \cup setB)]

\* jaccardSimilarity(...) > 0.6
TooSimilar(s, existing) ==
    LET j == jaccardSimilarity(tokenize(s.TaskPrompt), tokenize(existing.TaskPrompt))
    IN 5 * j.num > 3 * j.den

RECURSIVE SelectDiverseFirst(_, _, _, _)
\* the first loop of selectDiverse: the sessions with a summary that are not too
\* similar to one selected before them, until n are selected
SelectDiverseFirst(list, i, selected, n) ==
    IF i > Len(list) \/ Len(selected) >= n THEN selected
    ELSE LET s == list[i]
             isDiverse == \A k \in 1..Len(selected) : ~TooSimilar(s, selected[k])
         IN SelectDiverseFirst(list, i + 1,
                IF isDiverse /\ s.Summary # <<>> THEN Append(selected, s) ELSE selected,
                n)

RECURSIVE SelectDiverseFill(_, _, _, _)
\* the second loop of selectDiverse: the remaining sessions in order, until n
SelectDiverseFill(list, i, selected, n) ==
    IF i > Len(list) \/ Len(selected) >= n THEN selected
    ELSE LET s == list[i]
             found == \E k \in 1..Len(selected) : selected[k].ID = s.ID
         IN SelectDiverseFill(list, i + 1,
                IF ~found THEN Append(selected, s) ELSE selected, n)

\* selectDiverse without its limit
selectDiverseUncapped(list, n) == list

\* Analyzer.selectDiverse
selectDiverse(list, n) ==
    IF Len(list) <= n THEN list
    ELSE SelectDiverseFill(list, 1, SelectDiverseFirst(list, 1, <<>>, n), n)

\* generateSelectionReason
generateSelectionReason(s, isPositive) ==
    IF isPositive
    THEN <<"High-scoring session", s.Outcome.Score, Len(s.Steps)>>
    ELSE <<"Low-scoring session", s.Outcome.Score>>

\* the CuratedExample curateExamples builds from a session
ExampleOf(s, isPositive) ==
    [SessionID |-> s.ID,
     TaskPrompt |-> s.TaskPrompt,
     Summary |-> s.Summary,
     Score |-> s.Outcome.Score,
     Notes |-> IF s.Outcome.set THEN s.Outcome.Notes ELSE <<>>,
     WhySelected |-> generateSelectionReason(s, isPositive)]

\* Analyzer.curateExamples
curateExamples(high, low) ==
    LET selected == selectDiverse(SortByScore(high, -1), MaxHighExamples)
        sortedLow == SortByScore(low, 1)
        withSummary == {i \in 1..Len(sortedLow) : sortedLow[i].Summary # <<>>}
    IN [k \in 1..Len(selected) |-> ExampleOf(selected[k], TRUE)]
       \o (IF withSummary = {} THEN <<>>
           ELSE LET i == CHOOSE i \in withSummary : \A j \in withSummary : i <= j
                IN <<ExampleOf(sortedLow[i], FALSE)>>)

(***************************************************************************)
(* The pattern heuristics of the analyzer                                  *)
(***************************************************************************)
\* isReadTool
isReadTool(name) ==
    LET lname == ToLower(name)
    IN \/ lname \in {"read", "grep", "glob"}
       \/ Contains(lname, "search")
       \/ Contains(lname, "fetch")

\* isWriteTool
isWriteTool(name) ==
    LET lname == ToLower(name)
    IN \/ lname \in {"write", "edit", "notebookedit"}
       \/ Contains(lname, "create")
       \/ Contains(lname, "update")

RECURSIVE FieldsLoop(_, _, _, _)
\* the walk of strings.Fields, which cuts at unicode.IsSpace: word is the field that
\* byte i may continue
FieldsLoop(s, i, word, words) ==
    IF i > Len(s) THEN (IF Len(word) > 0 THEN Append(words, word) ELSE words)
    ELSE IF IsSpace(SubSeq(s, i, i))
    THEN FieldsLoop(s, i + 1, "", IF Len(word) > 0 THEN Append(words, word) ELSE words)
    ELSE FieldsLoop(s, i + 1, word \o SubSeq(s, i, i), words)

\* strings.Fields
Fields(s) == FieldsLoop(s, 1, "", <<>>)

RECURSIVE TrimLeftCut(_, _)
\* strings.TrimLeft
TrimLeftCut(s, cutset) ==
    IF Len(s) > 0 /\ Contains(cutset, SubSeq(s, 1, 1))
    THEN TrimLeftCut(SubSeq(s, 2, Len(s)), cutset)
    ELSE s

RECURSIVE TrimRightCut(_, _)
\* strings.TrimRight
TrimRightCut(s, cutset) ==
    IF Len(s) > 0 /\ Contains(cutset, SubSeq(s, Len(s), Len(s)))
    THEN TrimRightCut(SubSeq(s, 1, Len(s) - 1), cutset)
    ELSE s

\* strings.Trim
Trim(s, cutset) == TrimRightCut(TrimLeftCut(s, cutset), cutset)

\* extractFilePath of the analyzer: the first word of the summary that holds a slash
\* or a dot, without the quotes around it; the summary itself when there is none.
\* The cutset of the code holds the backquote as well, which no text here holds.
extractFilePath(summary) ==
    LET words == Fields(summary)
        hits == {i \in 1..Len(words) : Contains(words[i], "/") \/ Contains(words[i], ".")}
    IN IF hits = {} THEN summary
       ELSE Trim(words[CHOOSE i \in hits : \A j \in hits : i <= j], "\"'")

RECURSIVE ReadsBeforeWrite(_, _)
\* the inner loop of analyzeReadBeforeWrite: the read steps before the first write step
ReadsBeforeWrite(steps, i) ==
    IF i > Len(steps) \/ isWriteTool(steps[i].ToolName) THEN 0
    ELSE (IF isReadTool(steps[i].ToolName) THEN 1 ELSE 0) + ReadsBeforeWrite(steps, i + 1)

RECURSIVE ReadsAnywhere(_, _)
\* the read steps of the whole session
ReadsAnywhere(steps, i) ==
    IF i > Len(steps) THEN 0
    ELSE (IF isReadTool(steps[i].ToolName) THEN 1 ELSE 0) + ReadsAnywhere(steps, i + 1)

RECURSIVE SumSeq(_)
\* the sum of a list of numbers
SumSeq(nums) == IF Len(nums) = 0 THEN 0 ELSE nums[1] + SumSeq(Tail(nums))

\* the sum of f over the elements of the list
SumOver(list, f(_)) == SumSeq([i \in 1..Len(list) |-> f(list[i])])

\* a ratio of sessions: count / len(sessions)
RatioOf(list, has(_)) ==
    [num |-> Len(SelectSeq(list, has)), den |-> Len(list)]

\* analyzeReadBeforeWrite counting the reads behind a write as well
analyzeReadsAnywhere(list) ==
    IF Len(list) = 0
    THEN [ratio |-> [num |-> 0, den |-> 1], avgReads |-> [num |-> 0, den |-> 1]]
    ELSE LET reads(s) == ReadsAnywhere(s.Steps, 1)
             withReads == SelectSeq(list, LAMBDA s : reads(s) > 0)
         IN [ratio |-> [num |-> Len(withReads), den |-> Len(list)],
             avgReads |-> IF Len(withReads) > 0
                          THEN [num |-> SumOver(withReads, reads), den |-> Len(withReads)]
                          ELSE [num |-> 0, den |-> 1]]

\* Analyzer.analyzeReadBeforeWrite: ratio and avgReads as fractions
analyzeReadBeforeWrite(list) ==
    IF Len(list) = 0
    THEN [ratio |-> [num |-> 0, den |-> 1], avgReads |-> [num |-> 0, den |-> 1]]
    ELSE LET reads(s) == ReadsBeforeWrite(s.Steps, 1)
             withReads == SelectSeq(list, LAMBDA s : reads(s) > 0)
         IN [ratio |-> [num |-> Len(withReads), den |-> Len(list)],
             avgReads |-> IF Len(withReads) > 0
                          THEN [num |-> SumOver(withReads, reads), den |-> Len(withReads)]
                          ELSE [num |-> 0, den |-> 1]]

\* the write steps of the session
WriteIndices(s) == {i \in 1..Len(s.Steps) : isWriteTool(s.Steps[i].ToolName)}

\* Analyzer.analyzeRevisions: the ratio of sessions that wrote some path more than once
analyzeRevisions(list) ==
    IF Len(list) = 0 THEN [num |-> 0, den |-> 1]
    ELSE RatioOf(list, LAMBDA s :
            \E i, j \in WriteIndices(s) :
               /\ i < j
               /\ extractFilePath(s.Steps[i].InputSummary)
                     = extractFilePath(s.Steps[j].InputSummary))

\* Analyzer.analyzeToolDiversity: the mean number of distinct tools
analyzeToolDiversity(list) ==
    IF Len(list) = 0 THEN [num |-> 0, den |-> 1]
    ELSE [num |-> SumOver(list, LAMBDA s :
                     Cardinality({s.Steps[i].ToolName : i \in 1..Len(s.Steps)})),
          den |-> Len(list)]

\* Analyzer.analyzeStepCount: the mean number of steps
analyzeStepCount(list) ==
    IF Len(list) = 0 THEN [num |-> 0, den |-> 1]
    ELSE [num |-> SumOver(list, LAMBDA s : Len(s.Steps)), den |-> Len(list)]

\* Analyzer.analyzeSelfCritique: the ratio of sessions that read a path they had
\* written
analyzeSelfCritique(list) ==
    IF Len(list) = 0 THEN [num |-> 0, den |-> 1]
    ELSE RatioOf(list, LAMBDA s :
            \E j \in 1..Len(s.Steps) :
               /\ isReadTool(s.Steps[j].ToolName)
               /\ \E i \in WriteIndices(s) :
                     /\ i <= j
                     /\ extractFilePath(s.Steps[i].InputSummary)
                           = extractFilePath(s.Steps[j].InputSummary))

\* Analyzer.analyzeCheckpoints: the ratio of sessions with another step between two
\* writes that follow each other
analyzeCheckpoints(list) ==
    IF Len(list) = 0 THEN [num |-> 0, den |-> 1]
    ELSE RatioOf(list, LAMBDA s :
            \E i, j \in WriteIndices(s) :
               /\ j - i > 1
               /\ \A k \in WriteIndices(s) : ~(i < k /\ k < j))

PatternReadFirst == "Read source material before writing"
PatternRevise == "Revise and iterate on output"
PatternDiverse == "Use diverse tool set"
PatternThorough == "Invest thoroughness with multiple steps"
PatternCritique == "Re-read output for self-critique"
PatternCheckpoints == "Work incrementally with checkpoints"

\* Analyzer.extractPatterns: a pattern is its text and the numbers printed in it
extractPatterns(high) ==
    IF Len(high) = 0 THEN <<>>
    ELSE LET readBeforeWrite == analyzeReadBeforeWrite(high)
             revision == analyzeRevisions(high)
             diversity == analyzeToolDiversity(high)
             stepCount == analyzeStepCount(high)
             selfCritique == analyzeSelfCritique(high)
             checkpoint == analyzeCheckpoints(high)
         IN (IF /\ 5 * readBeforeWrite.ratio.num > 3 * readBeforeWrite.ratio.den
                /\ readBeforeWrite.avgReads.num >= 2 * readBeforeWrite.avgReads.den
             THEN << <<PatternReadFirst, readBeforeWrite.ratio, readBeforeWrite.avgReads>> >>
             ELSE <<>>)
            \o (IF 2 * revision.num > revision.den
                THEN << <<PatternRevise, revision>> >> ELSE <<>>)
            \o (IF diversity.num >= 3 * diversity.den
                THEN << <<PatternDiverse, diversity>> >> ELSE <<>>)
            \o (IF stepCount.num >= 5 * stepCount.den
                THEN << <<PatternThorough, stepCount>> >> ELSE <<>>)
            \o (IF 10 * selfCritique.num > 3 * selfCritique.den
                THEN << <<PatternCritique, selfCritique>> >> ELSE <<>>)
            \o (IF 5 * checkpoint.num > 2 * checkpoint.den
                THEN << <<PatternCheckpoints, checkpoint>> >> ELSE <<>>)

\* Analyze testing the number of sessions with the tag, scored or not, against
\* minSessions
AnalyzeCountsUnscored(byTag, tag, minSessions) ==
    LET scored == SelectSeq(byTag, LAMBDA s : s.Outcome.set)
    IN IF Len(byTag) < minSessions
       THEN [err |-> ErrInsufficientData, analysis |-> <<>>]
       ELSE LET high == SelectSeq(scored, LAMBDA s : CohortOf(s) = "high")
                low == SelectSeq(scored, LAMBDA s : CohortOf(s) = "low")
            IN [err |-> ErrNone,
                analysis |-> [Tag |-> tag,
                              TotalSessions |-> Len(scored),
                              HighScoreSessions |-> Len(high),
                              LowScoreSessions |-> Len(low),
                              AvgScoreHigh |-> calculateAvgScore(high),
                              AvgScoreLow |-> calculateAvgScore(low),
                              CuratedExamples |-> curateExamples(high, low)]]

\* Analyzer.Analyze once getSessionsByTag has returned the sessions byTag: the
\* analysis of those that have an outcome.  The pattern statements, which are read
\* off the steps of the sessions, are not part of the record here.
Analyze(byTag, tag, minSessions) ==
    LET scored == SelectSeq(byTag, LAMBDA s : s.Outcome.set)
    IN IF Len(scored) < minSessions
       THEN [err |-> ErrInsufficientData, analysis |-> <<>>]
       ELSE LET high == SelectSeq(scored, LAMBDA s : CohortOf(s) = "high")
                medium == SelectSeq(scored, LAMBDA s : CohortOf(s) = "medium")
                low == SelectSeq(scored, LAMBDA s : CohortOf(s) = "low")
            IN [err |-> ErrNone,
                analysis |-> [Tag |-> tag,
                              TotalSessions |-> Len(scored),
                              HighScoreSessions |-> Len(high),
                              LowScoreSessions |-> Len(low),
                              AvgScoreHigh |-> calculateAvgScore(high),
                              AvgScoreLow |-> calculateAvgScore(low),
                              CuratedExamples |-> curateExamples(high, low)]]

(***************************************************************************)
(* Optimizer: SaveProposal, Apply, Reject, Rollback                        *)
(***************************************************************************)
\* Optimizer.generateMetaPrompt: the parts of the prompt in the order they are written
generateMetaPrompt(target, analysis) ==
    LET ex == analysis.CuratedExamples
        lows == {i \in 1..Len(ex) : ex[i].Score < LowScoreThreshold}
    IN [Current |-> target.Content,
        Tag |-> analysis.Tag,
        High |-> <<analysis.HighScoreSessions, analysis.AvgScoreHigh>>,
        Low |-> <<analysis.LowScoreSessions, analysis.AvgScoreLow>>,
        HighExamples |-> SelectSeq(ex, LAMBDA e : e.Score >= HighScoreThreshold),
        LowExample |-> IF lows = {} THEN <<>>
                       ELSE <<ex[CHOOSE i \in lows : \A j \in lows : i <= j]>>]

\* the draft record of Propose
DraftRecord(target, analysis, ulid) ==
    [ID |-> ulid,
     TargetFile |-> target.FilePath,
     Tag |-> target.Tag,
     SessionsUsed |-> analysis.TotalSessions,
     AvgScoreHigh |-> analysis.AvgScoreHigh,
     AvgScoreLow |-> analysis.AvgScoreLow,
     PreviousContent |-> target.Content,
     NewContent |-> <<>>,
     Diff |-> <<>>,
     Status |-> OptStatusProposed,
     CreatedAt |-> 0,
     AppliedAt |-> 0,
     RolledBackAt |-> 0]

\* Propose putting its draft record in the store
ProposePersists(st, byTag, target, ulid) ==
    LET a == Analyze(byTag, target.Tag, target.MinSessions)
    IN IF a.err # ErrNone
       THEN [err |-> a.err, store |-> st, result |-> <<>>]
       ELSE LET rec == DraftRecord(target, a.analysis, ulid)
            IN [err |-> ErrNone,
                store |-> [k \in DOMAIN st \cup {ulid} |-> IF k = ulid THEN rec ELSE st[k]],
                result |-> [Target |-> target, Analysis |-> a.analysis, Record |-> rec,
                            Prompt |-> generateMetaPrompt(target, a.analysis)]]

\* Optimizer.Propose once getSessionsByTag has returned the sessions byTag to its
\* call of Analyze; ulid is the identifier store.NewULID() returns.  The store is
\* handed back as it was received: Propose calls no store operation that writes.
Propose(st, byTag, target, ulid) ==
    LET a == Analyze(byTag, target.Tag, target.MinSessions)
    IN IF a.err # ErrNone
       THEN [err |-> a.err, store |-> st, result |-> <<>>]
       ELSE [err |-> ErrNone,
             store |-> st,
             result |-> [Target |-> target,
                         Analysis |-> a.analysis,
                         Record |-> DraftRecord(target, a.analysis, ulid),
                         Prompt |-> generateMetaPrompt(target, a.analysis)]]

\* Analyze fails with this error when the search of the store fails
ErrGetSessions == "failed to get sessions"

\* Optimizer.SaveProposal
SaveProposal(st, now, ulid, recordID, filePath, tag, previousContent, newContent) ==
    LET record == [ID |-> recordID,
                   TargetFile |-> filePath,
                   Tag |-> tag,
                   SessionsUsed |-> 0,
                   AvgScoreHigh |-> 0,
                   AvgScoreLow |-> 0,
                   PreviousContent |-> previousContent,
                   NewContent |-> newContent,
                   Diff |-> generateUnifiedDiff(previousContent, newContent),
                   Status |-> OptStatusProposed,
                   CreatedAt |-> now,
                   AppliedAt |-> 0,
                   RolledBackAt |-> 0]
    IN CreateOptimization(st, record, ulid, now)

\* FirstWithTag falling back on the first target of the file when no tag matches
FirstWithTagOrFirst(targets, tag) ==
    LET hits == {i \in 1..Len(targets) : targets[i].Tag = tag}
    IN IF hits # {} THEN CHOOSE i \in hits : \A j \in hits : i <= j
       ELSE IF Len(targets) > 0 THEN 1 ELSE 0

\* the loop of Apply and Rollback over the targets: the index of the first target
\* whose tag is the record's, 0 when there is none
FirstWithTag(targets, tag) ==
    LET hits == {i \in 1..Len(targets) : targets[i].Tag = tag}
    IN IF hits = {} THEN 0 ELSE CHOOSE i \in hits : \A j \in hits : i <= j

\* Optimizer.Apply
Apply(st, fs, now, recordID, failAt) ==
    LET got == GetOptimization(st, recordID)
    IN IF got.err # ErrNone THEN [err |-> got.err, store |-> st, fs |-> fs]
       ELSE IF got.record.Status # OptStatusProposed
       THEN [err |-> ErrOptimizationNotProposed, store |-> st, fs |-> fs]
       ELSE
       LET record == got.record
           found == FindTargets(fs, record.TargetFile)
           t == FirstWithTag(found.targets, record.Tag)
       IN IF found.err # ErrNone THEN [err |-> ErrParseFile, store |-> st, fs |-> fs]
          ELSE IF t = 0 THEN [err |-> ErrTargetNotFound, store |-> st, fs |-> fs]
          ELSE
          LET rep == ReplaceTarget(fs, record.TargetFile, found.targets[t],
                                   record.NewContent, failAt)
          IN IF rep.err # ErrNone
             THEN [err |-> ErrReplaceContent, store |-> st, fs |-> rep.fs]
             ELSE LET upd == UpdateOptimizationOn(st,
                                [record EXCEPT !.Status = OptStatusAccepted,
                                               !.AppliedAt = now], failAt)
                  IN [err |-> upd.err, store |-> upd.store, fs |-> rep.fs]

\* Optimizer.Reject
Reject(st, fs, recordID) ==
    LET got == GetOptimization(st, recordID)
    IN IF got.err # ErrNone THEN [err |-> got.err, store |-> st, fs |-> fs]
       ELSE IF got.record.Status # OptStatusProposed
       THEN [err |-> ErrOptimizationNotProposed, store |-> st, fs |-> fs]
       ELSE LET upd == UpdateOptimization(st,
                          [got.record EXCEPT !.Status = OptStatusRejected])
            IN [err |-> upd.err, store |-> upd.store, fs |-> fs]

\* Optimizer.Rollback
Rollback(st, fs, now, recordID, failAt) ==
    LET got == GetOptimization(st, recordID)
    IN IF got.err # ErrNone THEN [err |-> got.err, store |-> st, fs |-> fs]
       ELSE IF got.record.Status # OptStatusAccepted
       THEN [err |-> ErrOptimizationNotApplied, store |-> st, fs |-> fs]
       ELSE
       LET record == got.record
           found == FindTargets(fs, record.TargetFile)
           t == FirstWithTag(found.targets, record.Tag)
       IN IF found.err # ErrNone THEN [err |-> ErrParseFile, store |-> st, fs |-> fs]
          ELSE IF t = 0 THEN [err |-> ErrTargetNotFound, store |-> st, fs |-> fs]
          ELSE
          LET rep == ReplaceTarget(fs, record.TargetFile, found.targets[t],
                                   record.PreviousContent, failAt)
          IN IF rep.err # ErrNone
             THEN [err |-> ErrRestoreContent, store |-> st, fs |-> rep.fs]
             ELSE LET upd == UpdateOptimizationOn(st,
                                [record EXCEPT !.Status = OptStatusRolledBack,
                                               !.RolledBackAt = now], failAt)
                  IN [err |-> upd.err, store |-> upd.store, fs |-> rep.fs]

(***************************************************************************)
(* Documents, inputs                                                       *)
(***************************************************************************)
DocPath == "CLAUDE.md"
MissingPath == "missing.md"
Paths == {DocPath}
Ids == {"01A"}
Tags == {"research", "review"}

\* one region, trailing newline
DocBase == Join(<< <<"#">>, <<StartResearch>>, <<"a">>, <<EndMarker>>, <<>> >>, NL)
\* DocBase with a line inserted above the region
DocMoved == Join(<< <<"#">>, <<"#">>, <<StartResearch>>, <<"a">>, <<EndMarker>>, <<>> >>, NL)
\* a body that starts with a blank line and has a line padded with a tab and a space
DocPadded == Join(<< <<StartResearch>>, <<>>, <<TAB, "a", SP>>, <<EndMarker>>, <<>> >>, NL)
\* a region with no body line
DocEmptyBody == Join(<< <<StartResearch>>, <<EndMarker>>, <<>> >>, NL)
\* two regions, no trailing newline
DocTwo == Join(<< <<StartResearch>>, <<"a">>, <<EndMarker>>, <<"#">>,
                  <<StartReview>>, <<"b">>, <<"a">>, <<EndMarker>> >>, NL)
\* no region at all
DocNoRegion == Join(<< <<"#">>, <<"a">>, <<>> >>, NL)
\* a start marker without its end marker
DocUnclosed == Join(<< <<"#">>, <<StartResearch>>, <<"a">>, <<>> >>, NL)
\* CRLF line ends
DocCRLF == Join(<< <<StartResearch, CR>>, <<"a", CR>>, <<EndMarker, CR>>, <<>> >>, NL)

\* the documents an editor may leave at DocPath
LifecycleDocs == {DocBase, DocMoved, DocPadded, DocEmptyBody, DocTwo, DocNoRegion,
                  DocUnclosed, DocCRLF}

\* the new content a caller may save (two lines)
NewContents == {<<"n", NL, "m">>}

\* the previous content a caller may save: what Propose handed out for the region
\* (target.Content of the first region with the tag), or some other text
PreviousContents(fs, filePath, tag) ==
    LET found == FindTargets(fs, filePath)
        t == FirstWithTag(found.targets, tag)
    IN (IF t # 0 THEN {found.targets[t].Content} ELSE {}) \cup {<<"z">>}

NoCall == [op |-> "none", id |-> "", err |-> ErrNone]

\* no concurrent caller
NoCallers == [start |-> <<>>, procs |-> <<>>]

\* no usage recorded
NoUsage == <<>>

\* no id under the key "current"
NoActive == ""

\* nothing returned yet
NoResult == [op |-> "none", tag |-> "", minSessions |-> 0, err |-> ErrNone,
             analysis |-> <<>>, proposals |-> <<>>]

(***************************************************************************)
(* The calls of the optimizer: Apply, Reject and Rollback, one step for    *)
(* each operation of the store (made under the lock of the store) and of   *)
(* the file system (the read of the whole file, the rename that puts the   *)
(* new text in place).                                                     *)
(***************************************************************************)
Callers == {1, 2}
ConcId == "01A"

\* the MCP server, which answers a tool call before it reads the next one
Servers == {1}

\* the calls that change the status of a record
ConcOps == {"Apply", "Reject", "Rollback"}

\* a caller that has not called yet.  renamed says that the rename of the call has
\* changed the document.
ProcIdle == [pc |-> "idle", op |-> "", id |-> "", record |-> <<>>, target |-> <<>>,
             content |-> <<>>, renamed |-> FALSE, err |-> ErrNone]

\* one server that handles no call
OneServer == [start |-> <<>>, calls |-> 0, procs |-> [c \in Servers |-> ProcIdle]]

\* the server reads no bucket of sessions: no call of Analyze, of the propose handler
\* or of ProposeAll is in progress.  In a call, targets are the targets yet to propose
\* for and ulids the identifiers NewULID returns for them, metas the ids of the
\* sessions yet to get and byTag the sessions getSessionsByTag has found; t counts
\* the calls of SearchSessions, failAt is the one that failed (0: none), began is
\* the bucket when the call arrived.
ReaderIdle ==
    [pc |-> "idle", op |-> "", tag |-> "", minSessions |-> 0, targets |-> <<>>,
     ulids |-> <<>>, metas |-> <<>>, byTag |-> <<>>, proposals |-> <<>>,
     analysis |-> <<>>, err |-> ErrNone, t |-> 0, failAt |-> 0, began |-> <<>>]

\* the step posts that are being handled, and a server that handles no call
Readers(posts) == [start |-> <<>>, procs |-> posts, reader |-> ReaderIdle]

\* one server that handles no call, of the optimizer or of the analyzer
ProposeServer ==
    [start |-> <<>>, calls |-> 0, procs |-> [c \in Servers |-> ProcIdle],
     reader |-> ReaderIdle]

\* the server handles no call: it answers a tool call before it reads the next one.
\* The procs are its calls where the calls are counted, the step posts elsewhere.
NoCallInProgress ==
    /\ "calls" \in DOMAIN conc => \A c \in DOMAIN conc.procs : conc.procs[c].pc = "idle"
    /\ "reader" \in DOMAIN conc => conc.reader.pc = "idle"

\* the caller's call returns err
Return(proc, err) == [proc EXCEPT !.pc = "done", !.err = err]

\* Reject without its status test
RefusalUnchecked(op, status) ==
    IF op = "Reject" THEN ErrNone
    ELSE IF op = "Rollback"
    THEN (IF status # OptStatusAccepted THEN ErrOptimizationNotApplied ELSE ErrNone)
    ELSE (IF status # OptStatusProposed THEN ErrOptimizationNotProposed ELSE ErrNone)

\* the status test of Apply, Reject and Rollback: the error the call returns for a
\* record with the status, ErrNone when the call goes on
Refusal(op, status) ==
    IF op = "Rollback"
    THEN (IF status # OptStatusAccepted THEN ErrOptimizationNotApplied ELSE ErrNone)
    ELSE (IF status # OptStatusProposed THEN ErrOptimizationNotProposed ELSE ErrNone)

\* caller c calls op(recordID)
CCall(c, op, recordID) ==
    /\ conc.procs[c].pc = "idle"
    /\ conc' = [conc EXCEPT !.calls = @ + 1,
                            !.procs[c] = [ProcIdle EXCEPT !.pc = "get", !.op = op,
                                                         !.id = recordID]]
    /\ UNCHANGED <<usage, active, files, store, clock, last, located, aw, sessions, result>>

\* o.store.GetOptimization(recordID) and the test of the status it returned
CGet(c) ==
    LET proc == conc.procs[c]
        got == GetOptimization(store, proc.id)
    IN /\ proc.pc = "get"
       /\ conc' = [conc EXCEPT !.procs[c] =
              IF got.err # ErrNone THEN Return(proc, got.err)
              ELSE IF Refusal(proc.op, got.record.Status) # ErrNone
              THEN Return(proc, Refusal(proc.op, got.record.Status))
              ELSE [proc EXCEPT !.record = got.record,
                                !.pc = IF proc.op = "Reject" THEN "update" ELSE "find"]]
       /\ UNCHANGED <<usage, active, files, store, clock, last, located, aw, sessions, result>>

\* o.parser.FindTargets(record.TargetFile) and the loop over the targets
CFind(c) ==
    LET proc == conc.procs[c]
        found == FindTargets(files, proc.record.TargetFile)
        t == FirstWithTag(found.targets, proc.record.Tag)
    IN /\ proc.pc = "find"
       /\ conc' = [conc EXCEPT !.procs[c] =
              IF found.err # ErrNone THEN Return(proc, ErrParseFile)
              ELSE IF t = 0 THEN Return(proc, ErrTargetNotFound)
              ELSE [proc EXCEPT !.target = found.targets[t], !.pc = "read"]]
       /\ UNCHANGED <<usage, active, files, store, clock, last, located, aw, sessions, result>>

\* ReplaceTarget up to its atomicWrite: os.ReadFile, the range test, the new text
CRead(c) ==
    LET proc == conc.procs[c]
        lines == Split(files[proc.record.TargetFile], NL)
        text == IF proc.op = "Apply" THEN proc.record.NewContent
                ELSE proc.record.PreviousContent
        failed == IF proc.op = "Apply" THEN ErrReplaceContent ELSE ErrRestoreContent
    IN /\ proc.pc = "read"
       /\ conc' = [conc EXCEPT !.procs[c] =
              IF proc.target.StartLine < 1 \/ proc.target.EndLine > Len(lines)
                 \/ proc.target.StartLine >= proc.target.EndLine
              THEN Return(proc, failed)
              ELSE [proc EXCEPT !.content = ReplaceResult(lines, proc.target, text),
                                !.pc = "write"]]
       /\ UNCHANGED <<usage, active, files, store, clock, last, located, aw, sessions, result>>

\* atomicWrite(filePath, content): the temp file is written and the rename puts the
\* new text in place, unless the system call failAt fails
CWrite(c, failAt) ==
    LET proc == conc.procs[c]
        w == atomicWrite(files, proc.record.TargetFile, proc.content, failAt)
        failed == IF proc.op = "Apply" THEN ErrReplaceContent ELSE ErrRestoreContent
    IN /\ proc.pc = "write"
       /\ files' = w.fs
       /\ conc' = [conc EXCEPT !.procs[c] =
              IF w.err # ErrNone THEN Return(proc, failed)
              ELSE [proc EXCEPT !.pc = "update", !.renamed = (w.fs # files)]]
       /\ UNCHANGED <<usage, active, store, clock, last, located, aw, sessions, result>>

\* Reject rebuilding the record it writes instead of updating the one it read: the
\* new content and the diff are lost
UpdatedDropsContent(proc, now) ==
    IF proc.op = "Apply"
    THEN [proc.record EXCEPT !.Status = OptStatusAccepted, !.AppliedAt = now]
    ELSE IF proc.op = "Reject"
    THEN [proc.record EXCEPT !.Status = OptStatusRejected, !.NewContent = <<>>,
                             !.Diff = <<>>]
    ELSE [proc.record EXCEPT !.Status = OptStatusRolledBack, !.RolledBackAt = now]

\* the record the caller read, with its new status and time stamp
Updated(proc, now) ==
    IF proc.op = "Apply"
    THEN [proc.record EXCEPT !.Status = OptStatusAccepted, !.AppliedAt = now]
    ELSE IF proc.op = "Reject"
    THEN [proc.record EXCEPT !.Status = OptStatusRejected]
    ELSE [proc.record EXCEPT !.Status = OptStatusRolledBack, !.RolledBackAt = now]

\* o.store.UpdateOptimization(record), which commits unless failAt says that the
\* store fails, and the call returns
CUpdate(c, failAt) ==
    LET proc == conc.procs[c]
        upd == UpdateOptimizationOn(store, Updated(proc, clock), failAt)
    IN /\ proc.pc = "update"
       /\ store' = upd.store
       /\ conc' = [conc EXCEPT !.procs[c] = Return(proc, upd.err)]
       /\ UNCHANGED <<usage, active, files, clock, last, located, aw, sessions, result>>

\* the call is answered, and the server reads the next request
CAnswer(c) ==
    LET proc == conc.procs[c]
    IN /\ proc.pc = "done"
       /\ last' = [op |-> proc.op, id |-> proc.id, err |-> proc.err]
       /\ conc' = [conc EXCEPT !.procs[c] = ProcIdle]
       /\ UNCHANGED <<usage, active, files, store, clock, located, aw, sessions, result>>

(***************************************************************************)
(* The lifecycle specification: the server saves, applies, rejects and     *)
(* rolls back records, one call after the other, while an editor changes   *)
(* the document at any time, between the steps of a call as well.          *)
(***************************************************************************)
Init ==
    /\ files \in [{DocPath} -> LifecycleDocs]
    /\ store = <<>>
    /\ clock = 1
    /\ last = NoCall
    /\ located = <<>>
    /\ aw = AwIdle
    /\ conc = OneServer
    /\ usage = NoUsage
    /\ active = NoActive
    /\ sessions = <<>>
    /\ result = NoResult

\* time passes
Tick ==
    /\ clock < MaxClock
    /\ clock' = clock + 1
    /\ UNCHANGED <<usage, active, conc, sessions, result, files, store, last, located, aw>>

\* someone edits the document outside the engine
Edit(doc) ==
    /\ files[DocPath] # doc
    /\ files' = [files EXCEPT ![DocPath] = doc]
    /\ last' = [op |-> "Edit", id |-> "", err |-> ErrNone]
    /\ UNCHANGED <<usage, active, conc, sessions, result, store, clock, located, aw>>

\* trajectory_optimize_save: SaveProposal, which makes one call of the store
Save(recordID, ulid, filePath, tag, previousContent, newContent) ==
    LET r == SaveProposal(store, clock, ulid, recordID, filePath, tag,
                          previousContent, newContent)
    IN /\ NoCallInProgress
       /\ store' = r.store
       /\ last' = [op |-> "Save", id |-> r.record.ID, err |-> r.err]
       /\ UNCHANGED <<usage, active, conc, sessions, result, files, clock, located, aw>>

\* the steps of the calls of the server
NextCall ==
    \/ \E c \in Servers : CGet(c)
    \/ \E c \in Servers : CFind(c)
    \/ \E c \in Servers : CRead(c)
    \/ \E c \in Servers, failAt \in AwFailures : CWrite(c, failAt)
    \/ \E c \in Servers : CUpdate(c, "none")
    \/ \E c \in Servers : CAnswer(c)

Next ==
    \/ Tick
    \/ \E doc \in LifecycleDocs : Edit(doc)
    \/ \E recordID \in Ids, filePath \in Paths, tag \in Tags, newContent \in NewContents :
         \E previousContent \in PreviousContents(files, filePath, tag) :
            Save(recordID, recordID, filePath, tag, previousContent, newContent)
    \/ \E ulid \in Ids \ DOMAIN store, filePath \in Paths, tag \in Tags,
          newContent \in NewContents :
         \E previousContent \in PreviousContents(files, filePath, tag) :
            Save("", ulid, filePath, tag, previousContent, newContent)
    \/ \E c \in Servers, recordID \in Ids, op \in ConcOps :
          conc.calls < MaxCalls /\ CCall(c, op, recordID)
    \/ NextCall

Spec == Init /\ [][Next]_vars

\* the lifecycle when the store may fail to commit the update that ends Apply and
\* Rollback
NextFail ==
    \/ Next
    \/ \E c \in Servers, failAt \in StoreFailures :
          conc.procs[c].op # "Reject" /\ CUpdate(c, failAt)

SpecFail == Init /\ [][NextFail]_vars

(***************************************************************************)
(* The parser specification: a caller locates the regions of the document, *)
(* an editor changes the document, and the caller replaces a region with   *)
(* the targets it holds, which may be stale by then.                       *)
(***************************************************************************)
\* a start marker inside an open region
DocNested == Join(<< <<StartResearch>>, <<StartReview>>, <<"a">>, <<EndMarker>>,
                     <<EndMarker>>, <<>> >>, NL)
\* an end marker with no open region
DocStrayEnd == Join(<< <<EndMarker>>, <<"a">>, <<>> >>, NL)
\* a start marker without the tag attribute
DocNoTag == Join(<< <<StartNoTag>>, <<"a">>, <<EndMarker>>, <<>> >>, NL)

\* one region in the compact form
DocCompact == Join(<< <<"#">>, <<CompactStart>>, <<"a">>, <<CompactEnd>>, <<>> >>, NL)
\* a region in the compact form, then one in the attributed form
DocMixed == Join(<< <<CompactStart>>, <<"a">>, <<CompactEnd>>, <<"#">>,
                    <<StartReview>>, <<"b">>, <<EndMarker>>, <<>> >>, NL)

\* a region of examples, then a region to optimize
DocExamples == Join(<< <<ExamplesResearch>>, <<"a">>, <<ExamplesEnd>>,
                       <<StartResearch>>, <<"a">>, <<EndMarker>>, <<>> >>, NL)

ParserDocs == LifecycleDocs \cup {DocNested, DocStrayEnd, DocNoTag, DocCompact, DocMixed,
                                  DocExamples}

\* a line that fills the buffer of the scanner, and the longest line that fits
LongLine == Repeat("a", MaxScanTokenSize)
LongestLine == Repeat("a", MaxScanTokenSize - 1)

\* a region whose body is a line the scanner cannot hold
DocLongLine == Join(<< <<StartResearch>>, <<LongLine>>, <<EndMarker>>, <<>> >>, NL)
\* such a line, then a start marker without its end marker
DocLongUnclosed == Join(<< <<LongLine>>, <<StartResearch>>, <<"a">>, <<>> >>, NL)
\* a region whose body is the longest line the scanner holds
DocLongest == Join(<< <<StartResearch>>, <<LongestLine>>, <<EndMarker>>, <<>> >>, NL)
\* a region of examples whose body with its \r fills the buffer
DocLongExamples == Join(<< <<ExamplesResearch>>, <<LongestLine, CR>>, <<ExamplesEnd>>,
                           <<>> >>, NL)

\* a region whose body is a line of letters and an e with an acute accent (two
\* bytes), the longest the scanner holds
DocLongAccent == Join(<< <<StartResearch>>,
                         <<Repeat("a", MaxScanTokenSize - 3), "\\u00E9">>,
                         <<EndMarker>>, <<>> >>, NL)

\* the documents the caller of the parser may find at DocPath at first
ParserStartDocs == ParserDocs \cup {DocLongLine, DocLongUnclosed, DocLongest,
                                    DocLongExamples, DocLongAccent}

\* the content a caller of ReplaceTarget may pass
ParserContents == {<<"n">>, <<"n", NL, "m">>, <<>>}

\* the labels and the content trajectory_curate_apply is called with
CurateTags == {"research", "review"}
CurateContents == {<<"e">>}

\* no call of trajectory_curate_apply in progress
CurateIdle == [pc |-> "idle", target |-> <<>>, content |-> <<>>]

\* the callers of the parser, none of them in a call
ParserCallers == [start |-> <<>>, calls |-> 0, procs |-> <<>>, curate |-> CurateIdle]

\* the caller of the parser is between two calls
ParserIdle == aw.pc = "idle" /\ conc.curate.pc = "idle"

InitParser ==
    /\ files \in [{DocPath} -> ParserStartDocs]
    /\ store = <<>>
    /\ clock = 1
    /\ last = NoCall
    /\ located = <<>>
    /\ aw = AwIdle
    /\ conc = ParserCallers
    /\ usage = NoUsage
    /\ active = NoActive
    /\ sessions = <<>>
    /\ result = NoResult

\* parser.FindTargets(filePath): the caller keeps the targets
PFind ==
    LET found == FindTargets(files, DocPath)
    IN /\ ParserIdle
       /\ located' = found.targets
       /\ last' = [op |-> "Find", id |-> "", err |-> found.err]
       /\ UNCHANGED <<usage, active, conc, sessions, result, files, store, clock, aw>>

\* someone edits the document; the targets the caller holds and the text its call
\* has read stay as they are
PEdit(doc) ==
    /\ files[DocPath] # doc
    /\ files' = [files EXCEPT ![DocPath] = doc]
    /\ last' = [op |-> "Edit", id |-> "", err |-> ErrNone]
    /\ UNCHANGED <<usage, active, conc, sessions, result, store, clock, located, aw>>

\* parser.ReplaceTarget(filePath, located[i], newContent) up to its call of
\* atomicWrite: os.ReadFile, the range test and the new text; the caller drops the
\* targets it held, whose line numbers its own edit invalidates
PReplace(i, newContent, failAt) ==
    LET lines == Split(files[DocPath], NL)
        target == located[i]
        invalid == \/ target.StartLine < 1 \/ target.EndLine > Len(lines)
                   \/ target.StartLine >= target.EndLine
    IN /\ ParserIdle
       /\ IF invalid THEN TRUE
          ELSE Len(ReplaceResult(lines, target, newContent)) <= MaxDocLen
       /\ aw' = IF invalid THEN AwIdle
                ELSE AwCall(DocPath, ReplaceResult(lines, target, newContent), failAt)
       /\ located' = <<>>
       /\ conc' = [conc EXCEPT !.calls = @ + 1]
       /\ last' = [op |-> "Replace", id |-> "",
                   err |-> IF invalid THEN ErrInvalidRange ELSE ErrNone]
       /\ UNCHANGED <<usage, active, sessions, result, files, store, clock>>

\* handleCurateApply up to its call of ReplaceExamplesTarget: FindExamplesTargets
\* and the loop over the targets for the first one with the label
CurateFind(tag, content) ==
    LET found == FindExamplesTargets(files, DocPath)
        t == FirstWithTag(found.targets, tag)
        err == IF found.err # ErrNone THEN ErrParseFile
               ELSE IF t = 0 THEN ErrNoExamplesTarget ELSE ErrNone
    IN /\ ParserIdle
       /\ conc' = [conc EXCEPT !.calls = @ + 1, !.curate =
              IF err # ErrNone THEN CurateIdle
              ELSE [pc |-> "replace", target |-> found.targets[t], content |-> content]]
       /\ last' = [op |-> "CurateApply", id |-> "", err |-> err]
       /\ UNCHANGED <<usage, active, sessions, result, files, store, clock, located, aw>>

\* parser.ReplaceExamplesTarget(filePath, target, content) up to its call of
\* atomicWrite: os.ReadFile, the range test and the new text
ReplaceExamplesTarget(failAt) ==
    LET lines == Split(files[DocPath], NL)
        target == conc.curate.target
        invalid == \/ target.StartLine < 1 \/ target.EndLine > Len(lines)
                   \/ target.StartLine >= target.EndLine
    IN /\ conc.curate.pc = "replace"
       /\ IF invalid THEN TRUE
          ELSE Len(ReplaceResult(lines, target, conc.curate.content)) <= MaxDocLen
       /\ aw' = IF invalid THEN AwIdle
                ELSE AwCall(DocPath, ReplaceResult(lines, target, conc.curate.content),
                            failAt)
       /\ conc' = [conc EXCEPT !.curate =
              IF invalid THEN CurateIdle ELSE [conc.curate EXCEPT !.pc = "write"]]
       /\ last' = [op |-> "CurateApply", id |-> "",
                   err |-> IF invalid THEN ErrInvalidRange ELSE ErrNone]
       /\ UNCHANGED <<usage, active, sessions, result, files, store, clock, located>>

\* the system call or cleanup of atomicWrite at position pc
WStep(pc) ==
    LET n == AwStep(files, aw)
    IN /\ aw.pc = pc
       /\ files' = n.fs
       /\ aw' = n.w
       /\ UNCHANGED <<usage, active, conc, sessions, result, store, clock, last, located>>

WCreateTemp == WStep("create")
WWriteString == WStep("write")
WClose == WStep("close")
WChmod == WStep("chmod")
WRename == WStep("rename")
WCleanup == WStep("cleanup")

\* atomicWrite returns its error, and ReplaceTarget or ReplaceExamplesTarget
\* returns it to the caller
WReturn ==
    /\ aw.pc = "done"
    /\ last' = [op |-> IF conc.curate.pc = "write" THEN "CurateApply" ELSE "Replace",
                id |-> "", err |-> aw.err]
    /\ aw' = AwIdle
    /\ conc' = [conc EXCEPT !.curate = CurateIdle]
    /\ UNCHANGED <<usage, active, sessions, result, files, store, clock, located>>

\* atomicWrite, one system call at a time, and its return
AwSteps ==
    \/ WCreateTemp
    \/ WWriteString
    \/ WClose
    \/ WChmod
    \/ WRename
    \/ WCleanup
    \/ WReturn

\* the parser with no other writer of the document; atomicWrite may fail at any of
\* its system calls
NextWrite ==
    \/ PFind
    \/ \E i \in 1..Len(located), newContent \in ParserContents, failAt \in AwFailures :
          conc.calls < MaxCalls /\ PReplace(i, newContent, failAt)
    \/ AwSteps

\* where atomicWrite fails while an editor is at work: nowhere, or at the rename
ParserFailures == {"none", "rename"}

NextParser ==
    \/ PFind
    \/ \E i \in 1..Len(located), newContent \in ParserContents, failAt \in ParserFailures :
          conc.calls < MaxCalls /\ PReplace(i, newContent, failAt)
    \/ AwSteps
    \/ \E doc \in ParserDocs : PEdit(doc)
    \/ \E tag \in CurateTags, content \in CurateContents :
          conc.calls < MaxCalls /\ CurateFind(tag, content)
    \/ \E failAt \in ParserFailures : ReplaceExamplesTarget(failAt)

SpecParser == InitParser /\ [][NextParser]_vars

(***************************************************************************)
(* The atomic-write specification: the calls of ReplaceTarget with no      *)
(* other writer of the document.                                           *)
(***************************************************************************)
InitWrite ==
    /\ files \in [{DocPath} -> LifecycleDocs]
    /\ store = <<>>
    /\ clock = 1
    /\ last = NoCall
    /\ located = <<>>
    /\ aw = AwIdle
    /\ conc = ParserCallers
    /\ usage = NoUsage
    /\ active = NoActive
    /\ sessions = <<>>
    /\ result = NoResult

SpecWrite == InitWrite /\ [][NextWrite]_vars

(***************************************************************************)
(* The proposal specification: callers ask for proposals, save the ones    *)
(* they were handed, and apply, reject and roll back the saved records.    *)
(***************************************************************************)
\* a session of the bucket
Session(id, tags, taskPrompt, summary, outcome) ==
    [ID |-> id, Tags |-> tags, TaskPrompt |-> taskPrompt, Summary |-> summary,
     Outcome |-> outcome, Steps |-> <<>>, Strategy |-> "", Status |-> "completed",
     LoadedContext |-> <<>>]

Scored(score) == [set |-> TRUE, Score |-> score, Notes |-> <<>>]

\* seven scored research sessions: 0.95, 0.85, 0.80, 0.65, 0.55, 0.40, 0.30
CorpusSeven ==
    LET scores == <<95, 85, 80, 65, 55, 40, 30>>
    IN [i \in 1..7 |-> Session(i, <<"research">>, <<"find", "sources">>, <<"done">>,
                               Scored(scores[i]))]

\* two scored research sessions and one that was never scored
CorpusTwo ==
    << Session(1, <<"research">>, <<"find", "sources">>, <<"done">>, Scored(80)),
       Session(2, <<"research">>, <<"write", "report">>, <<>>, NoOutcome),
       Session(3, <<"research", "review">>, <<"check", "facts">>, <<"done">>, Scored(30)) >>

\* one region that asks for two sessions
DocMin2 == Join(<< <<"#">>, <<StartResearchMin2>>, <<"a">>, <<EndMarker>>, <<>> >>, NL)
\* that region and a review region (twenty sessions)
DocMin2Two == Join(<< <<StartResearchMin2>>, <<"a">>, <<EndMarker>>, <<"#">>,
                      <<StartReview>>, <<"b">>, <<EndMarker>>, <<>> >>, NL)

ProposeDocs == {DocMin2, DocMin2Two, DocNoRegion, DocUnclosed}
ProposeCorpora == {<<>>, CorpusTwo, CorpusSeven}

\* the identifiers store.NewULID() may return
UlidPool == {"01B", "01C"}

\* the identifiers the last proposals carry
ProposedIds == {result.proposals[i].Record.ID : i \in 1..Len(result.proposals)}

\* identifiers NewULID can return now: never one it returned before
FreshUlids == UlidPool \ (DOMAIN store \cup ProposedIds)

InitPropose ==
    /\ files \in [{DocPath} -> ProposeDocs]
    /\ sessions \in ProposeCorpora
    /\ store = <<>>
    /\ clock = 1
    /\ last = NoCall
    /\ located = <<>>
    /\ aw = AwIdle
    /\ conc = ProposeServer
    /\ usage = NoUsage
    /\ active = NoActive
    /\ result = NoResult

\* trajectory_optimize_save with the identifier, path, tag and previous content of a
\* proposal the caller was handed
SaveProposed(i, newContent) ==
    LET p == result.proposals[i]
    IN Save(p.Record.ID, p.Record.ID, p.Target.FilePath, p.Target.Tag,
            p.Record.PreviousContent, newContent)

(***************************************************************************)
(* The concurrency specification: two callers call Apply, Reject or        *)
(* Rollback on the same record at the same time.  A call is a sequence of  *)
(* steps; the store operations (each under the store's lock) and the file  *)
(* operations (a read of the whole file, the rename) are one step each.    *)
(***************************************************************************)
\* the store with one record saved for the region of DocBase
ConcSaved == SaveProposal(<<>>, 1, ConcId, ConcId, DocPath, "research", <<"a">>,
                          <<"n", NL, "m">>).store
\* the store and the file after that record was applied
ConcApplied == Apply(ConcSaved, [p \in {DocPath} |-> DocBase], 1, ConcId, "none")

InitConc ==
    /\ \/ files = [p \in {DocPath} |-> DocBase] /\ store = ConcSaved
       \/ files = ConcApplied.fs /\ store = ConcApplied.store
    /\ clock = 1
    /\ last = NoCall
    /\ located = <<>>
    /\ aw = AwIdle
    /\ sessions = <<>>
    /\ result = NoResult
    /\ conc = [start |-> [store |-> store, files |-> files], calls |-> 0,
               procs |-> [c \in Callers |-> ProcIdle]]
    /\ usage = NoUsage
    /\ active = NoActive

NextConc ==
    \/ \E c \in Callers, op \in ConcOps : CCall(c, op, ConcId)
    \/ \E c \in Callers : CGet(c)
    \/ \E c \in Callers : CFind(c)
    \/ \E c \in Callers : CRead(c)
    \/ \E c \in Callers : CWrite(c, "none")
    \/ \E c \in Callers : CUpdate(c, "none")

SpecConc == InitConc /\ [][NextConc]_vars

(***************************************************************************)
(* The buckets of the analyzer specification, of up to MaxSessions         *)
(* sessions.                                                               *)
(***************************************************************************)
\* the sessions a bucket is made of: what a session carries besides its key
SessionKinds ==
    { [Tags |-> <<"research">>, TaskPrompt |-> <<"find", "sources">>,
       Summary |-> <<"done">>, Outcome |-> Scored(95)],
      [Tags |-> <<"research">>, TaskPrompt |-> <<"write", "the", "report">>,
       Summary |-> <<"done">>, Outcome |-> Scored(75)],
      [Tags |-> <<"research">>, TaskPrompt |-> <<"find", "sources">>,
       Summary |-> <<>>, Outcome |-> Scored(75)],
      [Tags |-> <<"research">>, TaskPrompt |-> <<"find", "sources">>,
       Summary |-> <<"done">>, Outcome |-> Scored(50)],
      [Tags |-> <<"research">>, TaskPrompt |-> <<"find", "sources">>,
       Summary |-> <<"done">>, Outcome |-> Scored(30)],
      [Tags |-> <<"research">>, TaskPrompt |-> <<"write", "the", "report">>,
       Summary |-> <<>>, Outcome |-> Scored(10)],
      [Tags |-> <<"research">>, TaskPrompt |-> <<"find", "sources">>,
       Summary |-> <<>>, Outcome |-> NoOutcome],
      [Tags |-> <<"Research", "review">>, TaskPrompt |-> <<"review", "research">>,
       Summary |-> <<"done">>, Outcome |-> Scored(80)] }

\* the bucket whose i-th session, in key order, is of kind kinds[i]
Bucket(kinds) ==
    [i \in 1..Len(kinds) |->
        Session(i, kinds[i].Tags, kinds[i].TaskPrompt, kinds[i].Summary, kinds[i].Outcome)]

\* seven scored research sessions, each with a summary: four in the high cohort,
\* one in the medium cohort, two in the low cohort
CorpusFourHigh ==
    LET scores == <<80, 40, 95, 60, 75, 30, 85>>
        prompts == << <<"find", "sources">>, <<"write", "the", "report">> >>
    IN [i \in 1..7 |->
           Session(i, <<"research">>, prompts[1 + (i % 2)], <<"done">>, Scored(scores[i]))]

AnalyzeCorpora ==
    {Bucket(kinds) : kinds \in UNION {[1..n -> SessionKinds] : n \in 0..MaxSessions}}
       \cup {CorpusSeven, CorpusFourHigh}

\* the minimum numbers of sessions a caller may ask for
MinSessionsChoices == {1, 2, 3, 5}

(***************************************************************************)
(* The diversity specification: Analyze is called on buckets of high        *)
(* sessions that differ in their task prompts only.                        *)
(***************************************************************************)
\* task prompts whose pairwise Jaccard similarities are 0, 1/3, 1/2, 2/3 and 1
DiversePrompts ==
    { <<"find", "sources">>, <<"find", "the", "sources">>, <<"find", "papers">>,
      <<"find", "sources", "quickly">>, <<"find", "sources", "fast">>,
      <<"write", "report">> }

DiverseCorpora ==
    { [i \in 1..Len(prompts) |->
          Session(i, <<"research">>, prompts[i], <<"done">>, Scored(90))] :
      prompts \in UNION {[1..n -> DiversePrompts] : n \in 0..MaxSessions} }

InitDiverse ==
    /\ files \in [{DocPath} -> {DocMin2}]
    /\ sessions \in DiverseCorpora
    /\ store = <<>>
    /\ clock = 1
    /\ last = NoCall
    /\ located = <<>>
    /\ aw = AwIdle
    /\ conc = Readers(<<>>)
    /\ usage = NoUsage
    /\ active = NoActive
    /\ result = NoResult

(***************************************************************************)
(* Strategy usage and strategy selection.  A key of the "strategy_usage"   *)
(* bucket is the string tag ":" session id.                                *)
(***************************************************************************)
ErrTagRequired == "tag is required"
ErrModeRequired == "mode is required"
ErrSessionIDRequired == "session_id is required"
ErrStrategyNameRequired == "strategy_name is required for explicit mode"
ErrStrategyNotFound == "strategy not found"
ErrNoStrategies == "no strategies defined for tag"
ErrInvalidMode == "invalid mode"
ErrSessionNotFound == "session not found"
ErrScoreRange == "score must be between 0.0 and 1.0"

ReasonExplicit == "Explicitly selected"
ReasonBest == "Best performer"
ReasonDefault == "Default (no performance data yet)"
ReasonRotation == "Rotation for exploration"

\* fmt.Sprintf("%s:%s", usage.Tag, usage.SessionID)
UsageKey(tag, sessionID) == tag \o ":" \o sessionID

\* strings.HasPrefix
HasPrefix(k, prefix) == Len(k) >= Len(prefix) /\ SubSeq(k, 1, Len(prefix)) = prefix

\* RecordStrategyUsage with the strategy name in the key
RecordStrategyUsagePerStrategy(ub, u) ==
    LET key == UsageKey(u.Tag, u.SessionID) \o ":" \o u.StrategyName
    IN [k \in DOMAIN ub \cup {key} |-> IF k = key THEN u ELSE ub[k]]

\* BoltStore.RecordStrategyUsage: bucket.Put under the key of the usage
RecordStrategyUsage(ub, u) ==
    LET key == UsageKey(u.Tag, u.SessionID)
    IN [k \in DOMAIN ub \cup {key} |-> IF k = key THEN u ELSE ub[k]]

\* BoltStore.UpdateStrategyUsageScore: the first record, in key order, of the
\* session gets the score; no record of the session is not an error
UpdateStrategyUsageScore(ub, sessionID, score) ==
    LET hits == {k \in DOMAIN ub : ub[k].SessionID = sessionID}
    IN IF hits = {} THEN ub
       ELSE LET first == CHOOSE k \in hits : \A k2 \in hits \ {k} : IdLess(k, k2)
            IN [ub EXCEPT ![first].Score = score]

\* the records a cursor of GetStrategyStats visits: the keys with the prefix tag ":"
StatsKeys(ub, tag) == {k \in DOMAIN ub : HasPrefix(k, tag \o ":")}

RECURSIVE SumUsageScores(_, _)
SumUsageScores(ub, keys) ==
    IF keys = {} THEN 0
    ELSE LET k == CHOOSE k \in keys : TRUE
         IN ub[k].Score + SumUsageScores(ub, keys \ {k})

\* BoltStore.GetStrategyStats: per strategy name the number of records visited and
\* the mean, as the fraction num/den, of their scores above 0
GetStrategyStats(ub, tag) ==
    LET names == {ub[k].StrategyName : k \in StatsKeys(ub, tag)}
    IN [n \in names |->
          LET all == {k \in StatsKeys(ub, tag) : ub[k].StrategyName = n}
              pos == {k \in all : ub[k].Score > 0}
          IN [SessionCount |-> Cardinality(all),
              AvgScore |-> IF pos = {} THEN [num |-> 0, den |-> 1]
                           ELSE [num |-> SumUsageScores(ub, pos),
                                 den |-> Cardinality(pos)]]]

\* no strategy selected
NoStrategy == [Name |-> "", SessionCount |-> 0, AvgScore |-> [num |-> 0, den |-> 1]]

RECURSIVE RecommendLoop(_, _, _, _, _)
\* the loop of mode "recommend": best holds bestScore, sel the strategy selected
RecommendLoop(strategies, i, stats, best, sel) ==
    IF i > Len(strategies) THEN sel
    ELSE LET name == strategies[i]
             better == /\ name \in DOMAIN stats
                       /\ stats[name].SessionCount >= 2
                       /\ stats[name].AvgScore.num * best.den
                             > best.num * stats[name].AvgScore.den
         IN IF better
            THEN RecommendLoop(strategies, i + 1, stats, stats[name].AvgScore,
                               [Name |-> name, SessionCount |-> stats[name].SessionCount,
                                AvgScore |-> stats[name].AvgScore])
            ELSE RecommendLoop(strategies, i + 1, stats, best, sel)

\* the count of mode "rotate" before the first strategy is looked at
RotateStart == 999999

RECURSIVE RotateLoop(_, _, _, _, _)
\* the loop of mode "rotate": minCount and the strategy selected
RotateLoop(strategies, i, stats, minCount, sel) ==
    IF i > Len(strategies) THEN sel
    ELSE LET name == strategies[i]
             count == IF name \in DOMAIN stats THEN stats[name].SessionCount ELSE 0
         IN IF count < minCount
            THEN RotateLoop(strategies, i + 1, stats, count,
                            [Name |-> name, SessionCount |-> count,
                             AvgScore |-> [num |-> 0, den |-> 1]])
            ELSE RotateLoop(strategies, i + 1, stats, minCount, sel)

\* what a selection returns
Selected(err, sel, reason) == [err |-> err, selected |-> sel, reason |-> reason]

\* Server.handleStrategiesSelect on a document whose strategies region of the tag
\* parses: strategies is the list of the names in the order of the document
handleStrategiesSelect(ub, tag, mode, strategyName, strategies) ==
    IF tag = "" THEN Selected(ErrTagRequired, NoStrategy, "")
    ELSE IF mode = "" THEN Selected(ErrModeRequired, NoStrategy, "")
    ELSE IF Len(strategies) = 0 THEN Selected(ErrNoStrategies, NoStrategy, "")
    ELSE IF mode = "explicit"
    THEN IF strategyName = "" THEN Selected(ErrStrategyNameRequired, NoStrategy, "")
         ELSE IF \E i \in 1..Len(strategies) : strategies[i] = strategyName
         THEN Selected(ErrNone, [NoStrategy EXCEPT !.Name = strategyName], ReasonExplicit)
         ELSE Selected(ErrStrategyNotFound, NoStrategy, "")
    ELSE IF mode = "recommend"
    THEN LET sel == RecommendLoop(strategies, 1, GetStrategyStats(ub, tag),
                                  [num |-> -1, den |-> 1], NoStrategy)
         IN IF sel = NoStrategy
            THEN Selected(ErrNone, [NoStrategy EXCEPT !.Name = strategies[1]], ReasonDefault)
            ELSE Selected(ErrNone, sel, ReasonBest)
    ELSE IF mode = "rotate"
    THEN Selected(ErrNone,
                  RotateLoop(strategies, 1, GetStrategyStats(ub, tag), RotateStart,
                             NoStrategy),
                  ReasonRotation)
    ELSE Selected(ErrInvalidMode, NoStrategy, "")

(***************************************************************************)
(* The selection specification: usages are recorded and scored, and a      *)
(* strategy is selected among the declared ones.                           *)
(***************************************************************************)
StrategyNames == {"A", "B"}
UsageSessions == {"s1", "s2", "s3", "s4"}
UsageScores == {0, 90, 100}

\* the usages that are recorded: label, strategy, session.  The last two have the
\* same key, "research:x:s4".
RecordInputs ==
    ({"research"} \X StrategyNames \X {"s1", "s2"})
       \cup {<<"research", "A", "s3">>, <<"research", "B", "s4">>,
             <<"research:x", "B", "s4">>, <<"research", "A", "x:s4">>}

\* the strategies declared for the label, in the order of the document
DeclaredLists == {<<>>, <<"A", "B">>, <<"B", "A", "C">>}

\* what trajectory_strategies_select is called with: mode and strategy_name
SelectInputs ==
    {<<"explicit", "">>, <<"explicit", "A">>, <<"explicit", "D">>,
     <<"recommend", "">>, <<"rotate", "">>, <<"random", "">>, <<"", "">>}

InitSelect ==
    /\ files \in [{DocPath} -> {DocMin2}]
    /\ sessions = <<>>
    /\ store = <<>>
    /\ clock = 1
    /\ last = NoCall
    /\ located = <<>>
    /\ aw = AwIdle
    /\ conc = NoCallers
    /\ usage = NoUsage
    /\ active = NoActive
    /\ result = NoResult

\* BoltStore.RecordStrategyUsage called on the store
RecordUsage(tag, name, sessionID) ==
    /\ usage' = RecordStrategyUsage(usage,
                   [Tag |-> tag, StrategyName |-> name, SessionID |-> sessionID,
                    Score |-> 0, UsedAt |-> clock])
    /\ result' = [op |-> "Record", tag |-> tag, name |-> name, sessionID |-> sessionID,
                  err |-> ErrNone,
                  \* history: a record was under the key of the usage before the call
                  replaced |-> UsageKey(tag, sessionID) \in DOMAIN usage]
    /\ UNCHANGED <<active, conc, sessions, files, store, clock, last, located, aw>>

\* BoltStore.UpdateStrategyUsageScore called on the store
UsageScore(sessionID, score) ==
    /\ usage' = UpdateStrategyUsageScore(usage, sessionID, score)
    /\ result' = [op |-> "UsageScore", sessionID |-> sessionID, score |-> score,
                  err |-> ErrNone]
    /\ UNCHANGED <<active, conc, sessions, files, store, clock, last, located, aw>>

\* trajectory_strategies_select on a document that declares the strategies
StrategiesSelect(tag, mode, strategyName, strategies) ==
    LET r == handleStrategiesSelect(usage, tag, mode, strategyName, strategies)
    IN /\ result' = [op |-> "Select", tag |-> tag, mode |-> mode,
                     strategies |-> strategies, err |-> r.err,
                     selected |-> r.selected, reason |-> r.reason]
       /\ UNCHANGED <<usage, active, conc, sessions, files, store, clock, last, located, aw>>

NextSelect ==
    \/ \E in \in RecordInputs : RecordUsage(in[1], in[2], in[3])
    \/ \E sessionID \in UsageSessions, score \in UsageScores : UsageScore(sessionID, score)
    \/ \E tag \in {"research", ""}, in \in SelectInputs, strategies \in DeclaredLists :
          StrategiesSelect(tag, in[1], in[2], strategies)

SpecSelect == InitSelect /\ [][NextSelect]_vars

(***************************************************************************)
(* The statistics specification: usages are recorded and scored, one       *)
(* session under one label, and the statistics of a label are read.  conc  *)
(* holds the history of the bucket: the keys of the records that were      *)
(* given a score since they were put.                                      *)
(***************************************************************************)
StatsTags == {"research", "research:x"}
StatsScores == {0, 50, 100}

\* the usages that are recorded: label, strategy, session
StatsInputs ==
    {<<"research", "A", "s1">>, <<"research", "A", "s2">>, <<"research", "B", "s3">>,
     <<"research:x", "A", "s4">>}

InitStats ==
    /\ files \in [{DocPath} -> {DocMin2}]
    /\ sessions = <<>>
    /\ store = <<>>
    /\ clock = 1
    /\ last = NoCall
    /\ located = <<>>
    /\ aw = AwIdle
    /\ conc = [scored |-> {}]
    /\ usage = NoUsage
    /\ active = NoActive
    /\ result = NoResult

\* BoltStore.RecordStrategyUsage called on the store: the record put has no score
StatsRecord(tag, name, sessionID) ==
    /\ usage' = RecordStrategyUsage(usage,
                   [Tag |-> tag, StrategyName |-> name, SessionID |-> sessionID,
                    Score |-> 0, UsedAt |-> clock])
    /\ UNCHANGED sessions
    /\ conc' = [scored |-> conc.scored \ {UsageKey(tag, sessionID)}]
    /\ result' = [op |-> "Record", tag |-> tag, name |-> name, sessionID |-> sessionID,
                  err |-> ErrNone]
    /\ UNCHANGED <<active, files, store, clock, last, located, aw>>

\* BoltStore.UpdateStrategyUsageScore called on the store
StatsScore(sessionID, score) ==
    /\ usage' = UpdateStrategyUsageScore(usage, sessionID, score)
    /\ conc' = [scored |-> conc.scored
                              \cup {k \in DOMAIN usage : usage[k].SessionID = sessionID}]
    /\ result' = [op |-> "UsageScore", sessionID |-> sessionID, score |-> score,
                  err |-> ErrNone]
    /\ UNCHANGED <<active, sessions, files, store, clock, last, located, aw>>

\* BoltStore.GetStrategyStats called on the store
StatsGet(tag) ==
    /\ result' = [op |-> "Stats", tag |-> tag, err |-> ErrNone,
                  stats |-> GetStrategyStats(usage, tag)]
    /\ UNCHANGED <<usage, active, conc, sessions, files, store, clock, last, located, aw>>

NextStats ==
    \/ \E in \in StatsInputs : StatsRecord(in[1], in[2], in[3])
    \/ \E in \in StatsInputs, score \in StatsScores : StatsScore(in[3], score)
    \/ \E tag \in StatsTags : StatsGet(tag)

SpecStats == InitStats /\ [][NextStats]_vars

(***************************************************************************)
(* The recording specification: recordings are started, stopped, scored    *)
(* and deleted, the active marker is set and cleared, and strategy usages  *)
(* are recorded.                                                           *)
(***************************************************************************)
ErrTaskPromptRequired == "task_prompt is required"
ErrAlreadyRecording == "a session is already recording - stop it first"
ErrNoActiveToStop == "no active session to stop"
ErrNoActiveSession == "no active session"
ErrSessionAlreadyActive == "a session is already recording"

\* there is a session with the id in the bucket
HasSession(ss, id) == \E i \in 1..Len(ss) : ss[i].ID = id

\* BoltStore.GetActiveSession: the error it returns
GetActiveSessionErr(ss, act) ==
    IF act = NoActive \/ ~HasSession(ss, act) THEN ErrNoActiveSession ELSE ErrNone

\* sessions.Put under the id of a session that is in the bucket
PutSession(ss, session) ==
    [i \in 1..Len(ss) |-> IF ss[i].ID = session.ID THEN session ELSE ss[i]]

\* the session with the id
SessionOf(ss, id) == ss[CHOOSE i \in 1..Len(ss) : ss[i].ID = id]

\* SetActiveSession without the test for a session that is active already
SetActiveSessionOverwrites(ss, act, sessionID) ==
    IF ~HasSession(ss, sessionID) THEN [err |-> ErrSessionNotFound, active |-> act]
    ELSE [err |-> ErrNone, active |-> sessionID]

\* BoltStore.SetActiveSession: the error and the marker afterwards
SetActiveSession(ss, act, sessionID) ==
    IF ~HasSession(ss, sessionID) THEN [err |-> ErrSessionNotFound, active |-> act]
    ELSE IF act # NoActive /\ act # sessionID
    THEN [err |-> ErrSessionAlreadyActive, active |-> act]
    ELSE [err |-> ErrNone, active |-> sessionID]

\* BoltStore.SetOutcome: the error and the bucket afterwards
SetOutcome(ss, sessionID, outcome) ==
    IF ~HasSession(ss, sessionID) THEN [err |-> ErrSessionNotFound, sessions |-> ss]
    ELSE [err |-> ErrNone,
          sessions |-> PutSession(ss, [SessionOf(ss, sessionID) EXCEPT
                                          !.Outcome = outcome, !.Status = "scored"])]

\* BoltStore.UpdateSession: the error and the bucket afterwards
UpdateSession(ss, session) ==
    IF ~HasSession(ss, session.ID) THEN [err |-> ErrSessionNotFound, sessions |-> ss]
    ELSE [err |-> ErrNone, sessions |-> PutSession(ss, session)]

\* BoltStore.AppendStep: the error and the bucket afterwards
AppendStep(ss, sessionID, step) ==
    IF ~HasSession(ss, sessionID) THEN [err |-> ErrSessionNotFound, sessions |-> ss]
    ELSE LET session == SessionOf(ss, sessionID)
             truncated ==
                 [step EXCEPT
                     !.InputSummary = TruncateString(@, MaxInputSummaryLen),
                     !.OutputSummary = TruncateString(@, MaxOutputSummaryLen)]
         IN [err |-> ErrNone,
             sessions |-> PutSession(ss, [session EXCEPT !.Steps = Append(@, truncated)])]

\* the error of BoltStore.CreateSession for an id that is in the bucket
ErrSessionExists == "session already exists"

\* the largest key of a bolt bucket, in bytes
MaxKeySize == 32768

\* the errors of Bucket.Put for a key it does not take, as CreateSession wraps them
ErrKeyRequired == "failed to store session: key required"
ErrKeyTooLarge == "failed to store session: key too large"

\* sessions.Put in CreateSession: an empty key and a key above MaxKeySize are
\* refused
PutError(key) ==
    IF Len(key) = 0 THEN ErrKeyRequired
    ELSE IF Len(key) > MaxKeySize THEN ErrKeyTooLarge
    ELSE ErrNone

\* BoltStore.CreateSession: the error and the bucket afterwards, in the order of its
\* keys.  The id is looked up first; nothing is stored when Put refuses the key.
CreateSession(ss, session) ==
    IF HasSession(ss, session.ID) THEN [err |-> ErrSessionExists, sessions |-> ss]
    ELSE IF PutError(session.ID) # ErrNone
    THEN [err |-> PutError(session.ID), sessions |-> ss]
    ELSE [err |-> ErrNone,
          sessions |-> SelectSeq(ss, LAMBDA x : IdLess(x.ID, session.ID))
                          \o <<session>>
                          \o SelectSeq(ss, LAMBDA x : IdLess(session.ID, x.ID))]

RECURSIVE ImportAll(_, _)
\* BoltStore.ImportAll: a line that does not decode is skipped, a session whose id
\* is in the bucket already is written over the stored one.  The scanner stops at
\* a line of MaxScanTokenSize bytes or more, and ImportAll returns its error with
\* the sessions of the lines before it imported.
ImportAll(ss, lines) ==
    IF Len(lines) = 0 THEN [err |-> ErrNone, sessions |-> ss]
    ELSE IF lines[1].bytes >= MaxScanTokenSize THEN [err |-> ErrTooLong, sessions |-> ss]
    ELSE IF ~lines[1].decodes THEN ImportAll(ss, Tail(lines))
    ELSE LET created == CreateSession(ss, lines[1].session)
         IN IF created.err = ErrNone THEN ImportAll(created.sessions, Tail(lines))
            ELSE IF Contains(created.err, "already exists")
            THEN LET updated == UpdateSession(ss, lines[1].session)
                 IN IF updated.err # ErrNone THEN [err |-> updated.err, sessions |-> ss]
                    ELSE ImportAll(updated.sessions, Tail(lines))
            ELSE [err |-> created.err, sessions |-> ss]

\* store.NewULID: the ids are handed out in increasing order
Ulids == <<"s1", "s2", "s3", "s4">>

\* what trajectory_start is called with
StartPrompts == {<<>>, <<"find", "sources">>}
\* what trajectory_stop is called with; -1 is no score
StopScores == {-1, 0, 80}

\* a tool call of the MCP server that has not arrived yet.  The server reads a
\* request and answers it before it reads the next one.
WriterIdle ==
    [pc |-> "idle", op |-> "", id |-> "", score |-> -1, summary |-> <<>>,
     session |-> <<>>, err |-> ErrNone, taskPrompt |-> <<>>, began |-> <<>>]

\* the processes of the recording specification: the MCP server, and no step posts
RecordProcs == [start |-> [steps |-> 0], procs |-> <<>>, writer |-> WriterIdle]

\* the MCP server handles no tool call
McpIdle == conc.writer.pc = "idle"

\* the server handles no tool call and no post: the commands of the command line
\* open the database of their own, which they can while no server holds it
ServerIdle == McpIdle /\ \A c \in DOMAIN conc.procs : conc.procs[c].pc = "idle"

InitRecord ==
    /\ files \in [{DocPath} -> {DocMin2}]
    /\ sessions = <<>>
    /\ store = <<>>
    /\ clock = 1
    /\ last = NoCall
    /\ located = <<>>
    /\ aw = AwIdle
    /\ conc = RecordProcs
    /\ usage = NoUsage
    /\ active = NoActive
    /\ result = NoResult

\* what a recording call returns
Returned(op, id, err) == [op |-> op, id |-> id, err |-> err]

\* trajectory_start arrives: the task_prompt test.  began is the marker and the
\* bucket the call finds.
TrajectoryStart(taskPrompt) ==
    /\ McpIdle
    /\ clock <= MaxStarts
    /\ conc' = [conc EXCEPT
                   !.writer = [WriterIdle EXCEPT
                                  !.op = "Start", !.taskPrompt = taskPrompt,
                                  !.began = [active |-> active, sessions |-> sessions],
                                  !.pc = IF taskPrompt = <<>> THEN "done" ELSE "called",
                                  !.err = IF taskPrompt = <<>> THEN ErrTaskPromptRequired
                                          ELSE ErrNone]]
    /\ UNCHANGED <<usage, active, sessions, files, store, clock, last, located, aw,
                   result>>

\* handleTrajectoryStart: store.GetActiveSession, which must fail
StartGetActive ==
    LET w == conc.writer
    IN /\ w.pc = "called" /\ w.op = "Start"
       /\ conc' = IF GetActiveSessionErr(sessions, active) = ErrNone
                  THEN [conc EXCEPT !.writer.pc = "done",
                                    !.writer.err = ErrAlreadyRecording]
                  ELSE [conc EXCEPT !.writer.pc = "checked"]
       /\ UNCHANGED <<usage, active, sessions, files, store, clock, last, located, aw,
                      result>>

\* handleTrajectoryStart: the session with a new ULID, made from the time clock, and
\* store.CreateSession
StartCreate ==
    LET w == conc.writer
        created == CreateSession(sessions,
                      [Session(Ulids[clock], <<"research">>, w.taskPrompt, <<>>,
                               NoOutcome) EXCEPT !.Status = "recording"])
    IN /\ w.pc = "checked"
       /\ clock' = clock + 1
       /\ sessions' = created.sessions
       /\ conc' = [conc EXCEPT
                      !.writer.id = Ulids[clock],
                      !.writer.pc = IF created.err # ErrNone THEN "done" ELSE "created",
                      !.writer.err = created.err]
       /\ UNCHANGED <<usage, active, files, store, last, located, aw, result>>

\* handleTrajectoryStart: store.SetActiveSession.  Until this step the new session
\* is in the bucket as recording while the marker is empty, and a step post handled
\* in between finds no active session.
StartSetActive ==
    LET w == conc.writer
        set == SetActiveSession(sessions, active, w.id)
    IN /\ w.pc = "created"
       /\ active' = set.active
       /\ conc' = [conc EXCEPT !.writer.pc = "done", !.writer.err = set.err]
       /\ UNCHANGED <<usage, sessions, files, store, clock, last, located, aw, result>>

\* trajectory_score: the session_id test, the range test and store.SetOutcome
TrajectoryScore(sessionID, score) ==
    /\ McpIdle
    /\ IF sessionID = ""
       THEN /\ result' = Returned("Score", sessionID, ErrSessionIDRequired)
            /\ UNCHANGED sessions
       ELSE IF score < 0 \/ score > 100
       THEN /\ result' = Returned("Score", sessionID, ErrScoreRange)
            /\ UNCHANGED sessions
       ELSE LET set == SetOutcome(sessions, sessionID, Scored(score))
            IN /\ sessions' = set.sessions
               /\ result' = Returned("Score", sessionID, set.err)
    /\ UNCHANGED <<usage, active, conc, files, store, clock, last, located, aw>>

\* BoltStore.SetActiveSession called on the store
DoSetActive(sessionID) ==
    LET set == SetActiveSession(sessions, active, sessionID)
    IN /\ ServerIdle
       /\ active' = set.active
       /\ result' = Returned("SetActive", sessionID, set.err)
       /\ UNCHANGED <<usage, conc, sessions, files, store, clock, last, located, aw>>

\* BoltStore.ClearActiveSession called on the store
DoClearActive ==
    /\ ServerIdle
    /\ active' = NoActive
    /\ result' = Returned("ClearActive", "", ErrNone)
    /\ UNCHANGED <<usage, conc, sessions, files, store, clock, last, located, aw>>

\* BoltStore.DeleteSession called on the store
DoDeleteSession(id) ==
    /\ ServerIdle
    /\ IF ~HasSession(sessions, id)
       THEN /\ result' = Returned("Delete", id, ErrSessionNotFound)
            /\ UNCHANGED <<sessions, active>>
       ELSE /\ active' = IF active = id THEN NoActive ELSE active
            /\ sessions' = SelectSeq(sessions, LAMBDA x : x.ID # id)
            /\ result' = Returned("Delete", id, ErrNone)
    /\ UNCHANGED <<usage, conc, files, store, clock, last, located, aw>>

\* a line of an export that decodes to the session, as long as the scanner of
\* ImportAll holds
ImportLine(session) ==
    [decodes |-> TRUE, session |-> session, bytes |-> MaxScanTokenSize - 1]

\* the exports that are imported: a scored session of an older bucket behind a line
\* that does not decode; the first session of this bucket as completed, with a
\* summary; both; the two with a line one byte too long for the scanner between
\* them; the older session behind a session without an id; the older session behind
\* a session whose id is too large a key
ImportFiles ==
    LET old == [Session("s0", <<"research">>, <<"find", "sources">>, <<"done">>,
                        Scored(80)) EXCEPT !.Status = "scored"]
        first == Session(Ulids[1], <<"research">>, <<"find", "sources">>, <<"done">>,
                         NoOutcome)
    IN { << [ImportLine(old) EXCEPT !.decodes = FALSE], ImportLine(old) >>,
         << ImportLine(first) >>,
         << ImportLine(first), ImportLine(old) >>,
         << ImportLine(first), [ImportLine(old) EXCEPT !.bytes = MaxScanTokenSize],
            ImportLine(old) >>,
         << ImportLine([old EXCEPT !.ID = ""]), ImportLine(old) >>,
         << ImportLine([old EXCEPT !.ID = Repeat("s", MaxKeySize + 1)]),
            ImportLine(old) >> }

\* the import command: BoltStore.ImportAll on the lines of the file
DoImport(lines) ==
    LET r == ImportAll(sessions, lines)
    IN /\ ServerIdle
       /\ sessions' = r.sessions
       /\ result' = Returned("Import", "", r.err)
       /\ UNCHANGED <<usage, active, conc, files, store, clock, last, located, aw>>

(***************************************************************************)
(* The history specification: the proposals of one propose call are saved, *)
(* in any order and at any time, and the history is listed.                *)
(***************************************************************************)
\* a research region and a review region, two sessions each
DocHistory == Join(<< <<StartResearchMin2>>, <<"a">>, <<EndMarker>>, <<"#">>,
                      <<StartReviewMin2>>, <<"b">>, <<EndMarker>>, <<>> >>, NL)

\* two scored sessions that carry both labels
CorpusBoth ==
    << Session(1, <<"research", "review">>, <<"find", "sources">>, <<"done">>, Scored(80)),
       Session(2, <<"research", "review">>, <<"check", "facts">>, <<"done">>, Scored(30)) >>

\* what History is called with
HistoryPaths == {"", DocPath, "other.md"}
HistoryLimits == {0, 1, 2, 10}

\* Optimizer.History
DoHistory(filePath, tag, limit) ==
    /\ NoCallInProgress
    /\ result' = [op |-> "History", filePath |-> filePath, tag |-> tag, limit |-> limit,
                  err |-> ErrNone, proposals |-> <<>>,
                  records |-> ListOptimizations(store, filePath, tag, limit)]
    /\ last' = [op |-> "History", id |-> "", err |-> ErrNone]
    /\ UNCHANGED <<usage, active, conc, sessions, files, store, clock, located, aw>>

(***************************************************************************)
(* The diff specification: one proposal is saved for any two texts.        *)
(***************************************************************************)
\* the bytes of the texts: a letter, the two prefix bytes of a diff line, a line break
DiffBytes == {"a", "-", "+", NL}

\* the texts of at most MaxDiffLen bytes
DiffTexts == UNION {[1..n -> DiffBytes] : n \in 0..MaxDiffLen}

InitDiff ==
    /\ files = [p \in {DocPath} |-> DocMin2]
    /\ sessions = <<>>
    /\ store = <<>>
    /\ clock = 1
    /\ last = NoCall
    /\ located = <<>>
    /\ aw = AwIdle
    /\ conc = NoCallers
    /\ usage = NoUsage
    /\ active = NoActive
    /\ result = NoResult

\* one trajectory_optimize_save into the empty store
NextDiff ==
    /\ store = <<>>
    /\ \E previousContent \in DiffTexts, newContent \in DiffTexts :
          Save("01A", "01A", DocPath, "research", previousContent, newContent)

SpecDiff == InitDiff /\ [][NextDiff]_vars

(***************************************************************************)
(* The ingestion specification: step posts are handled concurrently, one   *)
(* goroutine per post.  Each call of the store is one step (the store      *)
(* holds its mutex for the length of one call).                            *)
(***************************************************************************)
StatusOK == "200"
StatusBadRequest == "400"
StatusNotFound == "404"
StatusMethodNotAllowed == "405"
StatusInternalServerError == "500"

\* a JSON value of a payload: the text of the value, whether it decodes to an
\* object, and the string members of the object that the server looks at
JsonValue(raw, object, has, filePath, command) ==
    [raw |-> raw, object |-> object, has |-> has, file_path |-> filePath,
     command |-> command]

\* a member that is absent from the payload
JsonNone == JsonValue("", FALSE, {}, "", "")

\* {"file_path": path}
FileInput(path) ==
    JsonValue("{\"file_path\":\"" \o path \o "\"}", TRUE, {"file_path"}, path, "")

\* {"command": command}
CommandInput(command) ==
    JsonValue("{\"command\":\"" \o command \o "\"}", TRUE, {"command"}, "", command)

\* summarizeJSON
summarizeJSON(data) ==
    IF Len(data.raw) = 0 THEN ""
    ELSE IF data.object /\ "file_path" \in data.has
    THEN TruncateString(data.file_path, MaxInputSummaryLen)
    ELSE IF data.object /\ "command" \in data.has
    THEN TruncateString(data.command, MaxInputSummaryLen)
    ELSE LET s == data.raw
         IN IF Len(s) >= 2 /\ SubSeq(s, 1, 1) = "\"" /\ SubSeq(s, Len(s), Len(s)) = "\""
            THEN TruncateString(SubSeq(s, 2, Len(s) - 1), MaxInputSummaryLen)
            ELSE TruncateString(s, MaxInputSummaryLen)

\* extractFilePath of the ingestion server: the file_path of a tool input
inputFilePath(data) ==
    IF data.object /\ "file_path" \in data.has THEN data.file_path ELSE ""

\* a path of a markdown file that is longer than an input summary
LongPath == Repeat("x", MaxInputSummaryLen - 2) \o ".md"

\* strings.HasSuffix(strings.ToLower(filePath), ".md")
IsMarkdown(filePath) == HasSuffix(ToLower(filePath), ".md")

\* a request to /step
Payload(method, decodes, tool, input, output) ==
    [method |-> method, decodes |-> decodes, ToolName |-> tool, ToolInput |-> input,
     ToolOutput |-> output]

\* a POST of a payload that decodes
Post(tool, input, output) == Payload("POST", TRUE, tool, input, output)

\* the requests: a GET; a body that is no JSON; a payload without tool_name; Bash
\* with a command and a string as its output; Bash without an input; Grep with an
\* object that has neither file_path nor command; Read of markdown files, of a text
\* file and of the long path
StepPosts ==
    { Payload("GET", TRUE, "Bash", JsonNone, JsonNone),
      Payload("POST", FALSE, "", JsonNone, JsonNone),
      Post("", FileInput("notes.md"), JsonNone),
      Post("Bash", CommandInput("go test ./..."), JsonValue("\"ok\"", FALSE, {}, "", "")),
      Post("Bash", JsonNone, JsonNone),
      Post("Grep", JsonValue("{\"pattern\":\"x\"}", TRUE, {}, "", ""), JsonNone),
      Post("Read", FileInput("notes.md"), JsonNone),
      Post("Read", FileInput("NOTES.MD"), JsonNone),
      Post("Read", FileInput("notes.txt"), JsonNone),
      Post("Read", FileInput(LongPath), JsonNone) }

\* a post that has not arrived yet
PostIdle == [pc |-> "idle", payload |-> Post("", JsonNone, JsonNone), sessionID |-> "",
             session |-> <<>>, status |-> ""]

\* the session the posts are about, with one step recorded before them
StepSession ==
    [Session("s1", <<"research">>, <<"find", "sources">>, <<>>, NoOutcome) EXCEPT
        !.Status = "recording",
        !.Steps = << [ToolName |-> "Bash", InputSummary |-> "", OutputSummary |-> ""] >>]

InitSteps ==
    /\ files = [p \in {DocPath} |-> DocMin2]
    /\ sessions = <<StepSession>>
    /\ active \in {NoActive, "s1"}
    /\ store = <<>>
    /\ clock = 1
    /\ last = NoCall
    /\ located = <<>>
    /\ aw = AwIdle
    /\ usage = NoUsage
    /\ result = NoResult
    /\ conc = [start |-> [steps |-> Len(StepSession.Steps)],
               procs |-> [c \in Callers |-> PostIdle]]

\* the post of the caller is answered
Answered(c, status) ==
    conc' = [conc EXCEPT !.procs[c].pc = "done", !.procs[c].status = status]

\* handleStep: the method is tested, the payload is decoded and validated
SPost(c, payload) ==
    /\ conc.procs[c].pc = "idle"
    /\ IF payload.method # "POST" THEN Answered(c, StatusMethodNotAllowed)
       ELSE IF ~payload.decodes THEN Answered(c, StatusBadRequest)
       ELSE IF payload.ToolName = "" THEN Answered(c, StatusBadRequest)
       ELSE conc' = [conc EXCEPT !.procs[c].pc = "posted", !.procs[c].payload = payload]
    /\ UNCHANGED <<usage, active, sessions, files, store, clock, last, located, aw,
                   result>>

\* handleStep: store.GetActiveSession
SGetActive(c) ==
    /\ conc.procs[c].pc = "posted"
    /\ IF GetActiveSessionErr(sessions, active) = ErrNoActiveSession
       THEN Answered(c, StatusNotFound)
       ELSE conc' = [conc EXCEPT !.procs[c].pc = "got", !.procs[c].sessionID = active]
    /\ UNCHANGED <<usage, active, sessions, files, store, clock, last, located, aw,
                   result>>

\* handleStep: store.AppendStep with the summaries of the input and the output, and
\* the answer unless the loaded context follows
SAppend(c) ==
    LET p == conc.procs[c]
        r == AppendStep(sessions, p.sessionID,
                        [ToolName |-> p.payload.ToolName,
                         InputSummary |-> summarizeJSON(p.payload.ToolInput),
                         OutputSummary |-> summarizeJSON(p.payload.ToolOutput)])
    IN /\ p.pc = "got"
       /\ sessions' = r.sessions
       /\ IF r.err # ErrNone THEN Answered(c, StatusInternalServerError)
          ELSE IF /\ p.payload.ToolName = "Read"
                  /\ IsMarkdown(inputFilePath(p.payload.ToolInput))
          THEN conc' = [conc EXCEPT !.procs[c].pc = "appended"]
          ELSE Answered(c, StatusOK)
       /\ UNCHANGED <<usage, active, files, store, clock, last, located, aw,
                      result>>

\* appendLoadedContext: store.GetSession and the path added to the copy
SLoad(c) ==
    LET p == conc.procs[c]
        filePath == inputFilePath(p.payload.ToolInput)
    IN /\ p.pc = "appended"
       /\ IF ~HasSession(sessions, p.sessionID) THEN Answered(c, StatusOK)
          ELSE LET session == SessionOf(sessions, p.sessionID)
               IN IF \E i \in 1..Len(session.LoadedContext) :
                        session.LoadedContext[i] = filePath
                  THEN Answered(c, StatusOK)
                  ELSE conc' = [conc EXCEPT
                                   !.procs[c].pc = "loaded",
                                   !.procs[c].session =
                                       [session EXCEPT
                                           !.LoadedContext = Append(@, filePath)]]
       /\ UNCHANGED <<usage, active, sessions, files, store, clock, last, located, aw,
                      result>>

\* appendLoadedContext: store.UpdateSession with the copy, and the answer
SUpdate(c) ==
    LET p == conc.procs[c]
    IN /\ p.pc = "loaded"
       /\ sessions' = UpdateSession(sessions, p.session).sessions
       /\ Answered(c, StatusOK)
       /\ UNCHANGED <<usage, active, files, store, clock, last, located, aw,
                      result>>

\* the answer is sent, and the next post of the hook can arrive
SAnswer(c) ==
    LET p == conc.procs[c]
    IN /\ p.pc = "done"
       /\ result' = Returned("Step", p.sessionID, p.status)
       /\ conc' = [conc EXCEPT !.procs[c] = PostIdle]
       /\ UNCHANGED <<usage, active, sessions, files, store, clock, last, located, aw>>

NextSteps ==
    \/ \E c \in Callers, payload \in StepPosts : SPost(c, payload)
    \/ \E c \in Callers : SGetActive(c)
    \/ \E c \in Callers : SAppend(c)
    \/ \E c \in Callers : SLoad(c)
    \/ \E c \in Callers : SUpdate(c)

SpecSteps == InitSteps /\ [][NextSteps]_vars

(***************************************************************************)
(* The calls of the server that read the bucket of sessions:               *)
(* Analyzer.Analyze, trajectory_optimize_propose and Optimizer.ProposeAll. *)
(* Each call of the store is one step: SearchSessions, then one GetSession *)
(* for each session it found.  The store holds its mutex for the length of *)
(* one call, and the step posts, which the ingestion server handles in     *)
(* goroutines of the same process, fall between the calls.                 *)
(***************************************************************************)
ErrFilePathRequired == "file_path is required"

\* what the call of the reader returns.  byTag, began and ended are history: the
\* sessions the last getSessionsByTag of the call returned, and the bucket when the
\* call arrived and when it was answered.
ResultOf(rd, ended) ==
    [op |-> rd.op, tag |-> rd.tag, minSessions |-> rd.minSessions, err |-> rd.err,
     analysis |-> rd.analysis, proposals |-> rd.proposals, failAt |-> rd.failAt,
     byTag |-> rd.byTag, began |-> rd.began, ended |-> ended]

\* the call goes on as rd with the store st: a call that is over is answered, and the
\* server reads the next request
ReaderGoes(rd, st) ==
    /\ store' = st
    /\ IF rd.pc = "done"
       THEN /\ conc' = [conc EXCEPT !.reader = ReaderIdle]
            /\ result' = ResultOf(rd, sessions)
            /\ last' = IF rd.op = "Analyze" THEN last
                       ELSE [op |-> rd.op, id |-> "", err |-> rd.err]
       ELSE /\ conc' = [conc EXCEPT !.reader = rd]
            /\ UNCHANGED <<result, last>>
    /\ UNCHANGED <<usage, active, sessions, files, clock, located, aw>>

\* the call is over: it returns err and the proposals
Over(rd, err, proposals) == [rd EXCEPT !.pc = "done", !.err = err, !.proposals = proposals]

\* ProposeAll going on to the next target after any failure of Propose
ProposeAllSkipsAll(err) == TRUE

\* ProposeAll goes on to the next target after Propose failed with err:
\* errors.Is(err, ErrInsufficientData)
ProposeAllSkips(err) == err = ErrInsufficientData

\* the loop over the targets once Propose has returned r for the first of them: the
\* handler skips a target whose Propose failed, ProposeAll skips it when the failure
\* is ErrInsufficientData and returns any other error
ProposeLoop(rd, r) ==
    IF r.err # ErrNone /\ rd.op = "ProposeAll" /\ ~ProposeAllSkips(r.err)
    THEN Over(rd, r.err, <<>>)
    ELSE LET proposals == IF r.err = ErrNone THEN Append(rd.proposals, r.result)
                          ELSE rd.proposals
         IN IF Len(rd.targets) = 1 THEN Over(rd, ErrNone, proposals)
            ELSE [rd EXCEPT !.pc = "search", !.targets = Tail(@), !.ulids = Tail(@),
                            !.proposals = proposals]

\* the loop of getSessionsByTag has ended: Analyze goes on with the sessions it
\* found, and Propose with the analysis
Fetched(rd, st) ==
    IF rd.op = "Analyze"
    THEN LET a == Analyze(rd.byTag, rd.tag, rd.minSessions)
         IN [reader |-> [Over(rd, a.err, <<>>) EXCEPT !.analysis = a.analysis],
             store |-> st]
    ELSE LET r == Propose(st, rd.byTag, rd.targets[1], rd.ulids[1])
         IN [reader |-> ProposeLoop(rd, r), store |-> r.store]

\* the tag Analyze was called with
ReaderTag(rd) == IF rd.op = "Analyze" THEN rd.tag ELSE rd.targets[1].Tag

\* Analyzer.Analyze(tag, minSessions) is called
DoAnalyze(tag, minSessions) ==
    /\ NoCallInProgress
    /\ ReaderGoes([ReaderIdle EXCEPT !.pc = "search", !.op = "Analyze", !.tag = tag,
                                     !.minSessions = minSessions, !.began = sessions],
                  store)

\* trajectory_optimize_propose arrives: the file_path test, FindTargets, and the
\* targets with the tag when one is given.  ulids are the identifiers NewULID
\* returns in the call, one for each call of Propose.
DoPropose(filePath, tag, ulids) ==
    LET rd == [ReaderIdle EXCEPT !.op = "Propose", !.tag = tag, !.began = sessions]
        found == FindTargets(files, filePath)
        filtered == IF tag # "" THEN SelectSeq(found.targets, LAMBDA t : t.Tag = tag)
                    ELSE found.targets
    IN /\ NoCallInProgress
       /\ ReaderGoes(IF filePath = "" THEN Over(rd, ErrFilePathRequired, <<>>)
                     ELSE IF found.err # ErrNone THEN Over(rd, ErrParseFile, <<>>)
                     ELSE IF Len(found.targets) = 0 THEN Over(rd, ErrNoTargets, <<>>)
                     ELSE IF Len(filtered) = 0 THEN Over(rd, ErrNoTargetForTag, <<>>)
                     ELSE [rd EXCEPT !.pc = "search", !.targets = filtered,
                                     !.ulids = ulids],
                     store)

\* Optimizer.ProposeAll is called: FindTargets
DoProposeAll(filePath, ulids) ==
    LET rd == [ReaderIdle EXCEPT !.op = "ProposeAll", !.began = sessions]
        found == FindTargets(files, filePath)
    IN /\ NoCallInProgress
       /\ ReaderGoes(IF found.err # ErrNone THEN Over(rd, ErrParseFile, <<>>)
                     ELSE IF Len(found.targets) = 0 THEN Over(rd, ErrNone, <<>>)
                     ELSE [rd EXCEPT !.pc = "search", !.targets = found.targets,
                                     !.ulids = ulids],
                     store)

\* getSessionsByTag: store.SearchSessions(tag, 1000)
RSearch ==
    LET rd == conc.reader
        next == [rd EXCEPT !.pc = "get", !.t = @ + 1, !.byTag = <<>>,
                           !.metas = SearchMetas(sessions, ReaderTag(rd))]
        after == IF Len(next.metas) = 0 THEN Fetched(next, store)
                 ELSE [reader |-> next, store |-> store]
    IN /\ rd.pc = "search"
       /\ ReaderGoes(after.reader, after.store)

\* getSessionsByTag: store.SearchSessions returns an error, and Analyze fails with
\* "failed to get sessions"
RSearchFails ==
    LET rd == conc.reader
        next == [rd EXCEPT !.t = @ + 1, !.failAt = rd.t + 1, !.byTag = <<>>]
    IN /\ rd.pc = "search"
       /\ ReaderGoes(IF rd.op = "Analyze" THEN Over(next, ErrGetSessions, <<>>)
                     ELSE ProposeLoop(next, [err |-> ErrGetSessions, store |-> store,
                                             result |-> <<>>]),
                     store)

\* getSessionsByTag: store.GetSession(meta.ID) for the next session found
RGet ==
    LET rd == conc.reader
        next == [rd EXCEPT !.metas = Tail(@),
                           !.byTag = getSessionsByTagTurn(sessions, rd.metas[1],
                                                          ReaderTag(rd), @)]
        after == IF Len(next.metas) = 0 THEN Fetched(next, store)
                 ELSE [reader |-> next, store |-> store]
    IN /\ rd.pc = "get"
       /\ ReaderGoes(after.reader, after.store)

(***************************************************************************)
(* The proposal specification.                                             *)
(***************************************************************************)
NextPropose ==
    \/ \E filePath \in {DocPath, ""}, tag \in Tags \cup {""},
          u1 \in FreshUlids, u2 \in FreshUlids :
          u1 # u2 /\ DoPropose(filePath, tag, <<u1, u2>>)
    \/ \E u1 \in FreshUlids, u2 \in FreshUlids :
          u1 # u2 /\ DoProposeAll(DocPath, <<u1, u2>>)
    \/ RSearch
    \/ RGet
    \/ \E i \in 1..Len(result.proposals), newContent \in NewContents :
          SaveProposed(i, newContent)
    \/ \E c \in Servers, recordID \in UlidPool, op \in ConcOps :
          conc.calls < MaxCalls /\ NoCallInProgress /\ CCall(c, op, recordID)
    \/ NextCall

SpecPropose == InitPropose /\ [][NextPropose]_vars

(***************************************************************************)
(* The step posts that are being handled when the server is asked for an   *)
(* analysis or a proposal.  The hook posted a read of notes.md while the   *)
(* session was recording, and the goroutine of the post has called         *)
(* GetActiveSession, or has gone on to append the step and to read the     *)
(* session for its loaded context, when trajectory_stop scored the         *)
(* session.                                                                *)
(***************************************************************************)
ReadPost == Post("Read", FileInput("notes.md"), JsonNone)

\* the step AppendStep records for the post
ReadStep ==
    [ToolName |-> "Read", InputSummary |-> summarizeJSON(ReadPost.ToolInput),
     OutputSummary |-> summarizeJSON(ReadPost.ToolOutput)]

\* the sessions of CorpusBoth as trajectory_stop left them, the read recorded in each
CorpusStopped ==
    [i \in 1..Len(CorpusBoth) |->
        [CorpusBoth[i] EXCEPT !.Status = "scored", !.Steps = <<ReadStep>>]]

\* the post has called GetActiveSession, which returned the session
PostGot(session) ==
    [PostIdle EXCEPT !.pc = "got", !.payload = ReadPost, !.sessionID = session.ID]

\* the post has appended its step and appendLoadedContext has read the session, which
\* had no outcome then, and added the path to its copy
PostLoaded(session) ==
    [PostIdle EXCEPT !.pc = "loaded", !.payload = ReadPost, !.sessionID = session.ID,
                     !.session = [session EXCEPT !.Outcome = NoOutcome,
                                                 !.Status = "recording",
                                                 !.LoadedContext = Append(@, "notes.md")]]

\* the posts being handled: the post of caller c, if any, is about session c
PostsInFlight ==
    {posts \in [Callers -> {PostIdle, PostGot(CorpusStopped[1]),
                            PostLoaded(CorpusStopped[1]), PostGot(CorpusStopped[2]),
                            PostLoaded(CorpusStopped[2])}] :
        \A c \in Callers : posts[c].pc # "idle" => posts[c].sessionID = c}

\* the steps of the posts that write a session
PostWrites ==
    \/ \E c \in Callers : SAppend(c)
    \/ \E c \in Callers : SLoad(c)
    \/ \E c \in Callers : SUpdate(c)

(***************************************************************************)
(* The analyzer specification: Analyze is called once, with any label and  *)
(* minimum, on buckets of up to MaxSessions sessions, and on the stopped   *)
(* sessions while posts are being handled.  Analyze writes nothing: a      *)
(* second call would return what it returns as the first call of a         *)
(* behaviour that begins with the bucket it finds.                         *)
(***************************************************************************)
InitAnalyze ==
    /\ files \in [{DocPath} -> {DocMin2}]
    /\ \/ sessions \in AnalyzeCorpora /\ conc = Readers([c \in Callers |-> PostIdle])
       \/ sessions = CorpusStopped /\ conc \in {Readers(posts) : posts \in PostsInFlight}
    /\ store = <<>>
    /\ clock = 1
    /\ last = NoCall
    /\ located = <<>>
    /\ aw = AwIdle
    /\ usage = NoUsage
    /\ active = NoActive
    /\ result = NoResult

\* the call of Analyze and its steps
NextCurate ==
    \/ \E tag \in Tags, minSessions \in MinSessionsChoices :
          result = NoResult /\ DoAnalyze(tag, minSessions)
    \/ RSearch
    \/ RGet

NextAnalyze ==
    \/ NextCurate
    \/ PostWrites

SpecAnalyze == InitAnalyze /\ [][NextAnalyze]_vars

\* the diversity specification
SpecDiverse == InitDiverse /\ [][NextCurate]_vars

(***************************************************************************)
(* The history specification: proposals are asked for while posts are      *)
(* being handled, the proposals of a call are saved, in any order and at   *)
(* any time, and the history is listed.                                    *)
(***************************************************************************)
InitHistory ==
    /\ files = [p \in {DocPath} |-> DocHistory]
    /\ sessions = CorpusStopped
    /\ conc \in {Readers(posts) : posts \in PostsInFlight}
    /\ store = <<>>
    /\ clock = 1
    /\ last = NoCall
    /\ located = <<>>
    /\ aw = AwIdle
    /\ usage = NoUsage
    /\ active = NoActive
    /\ result = NoResult

NextHistory ==
    \/ \E tag \in Tags \cup {""} :
          /\ {"01B", "01C"} \subseteq FreshUlids
          /\ DoPropose(DocPath, tag, <<"01B", "01C">>)
    \/ RSearch
    \/ RGet
    \/ PostWrites
    \/ \E i \in 1..Len(result.proposals), newContent \in NewContents :
          SaveProposed(i, newContent)
    \/ Tick
    \/ \E filePath \in HistoryPaths, tag \in Tags \cup {""}, limit \in HistoryLimits :
          DoHistory(filePath, tag, limit)

SpecHistory == InitHistory /\ [][NextHistory]_vars

(***************************************************************************)
(* The tool calls of the MCP server that write a whole session:            *)
(* trajectory_stop, trajectory_summarize and trajectory_strategies_record. *)
(* Each call of the store is one step, and the step posts, which the       *)
(* ingestion server handles in goroutines of their own, fall between them. *)
(***************************************************************************)
ErrSummaryRequired == "summary is required"
RaceSummary == <<"done">>
RaceStrategy == "A"

\* the tool call arrives and its input is decoded and validated: op is the tool,
\* id the session_id (trajectory_stop has none), score the score of trajectory_stop
\* (-1: none), summary the summary of trajectory_summarize.  The tag and the
\* strategy name of trajectory_strategies_record are given.
WCall(op, id, score, summary) ==
    LET err == IF op \in {"Summarize", "Record"} /\ id = "" THEN ErrSessionIDRequired
               ELSE IF op = "Summarize" /\ summary = <<>> THEN ErrSummaryRequired
               ELSE ErrNone
    IN
    /\ conc.writer.pc = "idle"
    /\ conc' = [conc EXCEPT
                   !.writer = [WriterIdle EXCEPT
                                  !.op = op, !.id = id, !.score = score,
                                  !.summary = summary,
                                  !.pc = IF err # ErrNone THEN "done" ELSE "called",
                                  !.err = err]]
    /\ UNCHANGED <<usage, active, sessions, files, store, clock, last, located, aw,
                   result>>

\* handleStrategiesRecord: boltStore.RecordStrategyUsage
WUsage ==
    /\ conc.writer.pc = "called" /\ conc.writer.op = "Record"
    /\ usage' = RecordStrategyUsage(usage,
                   [Tag |-> "research", StrategyName |-> RaceStrategy,
                    SessionID |-> conc.writer.id, Score |-> 0, UsedAt |-> clock])
    /\ conc' = [conc EXCEPT !.writer.pc = "recorded"]
    /\ UNCHANGED <<active, sessions, files, store, clock, last, located, aw,
                   result>>

\* the session a tool call writes, from the copy of the session it has read
WriterCopy(w, session) ==
    IF w.op = "Stop"
    THEN IF w.score = -1 THEN [session EXCEPT !.Status = "completed"]
         ELSE [session EXCEPT !.Status = "scored", !.Outcome = Scored(w.score)]
    ELSE IF w.op = "Summarize" THEN [session EXCEPT !.Summary = w.summary]
    ELSE [session EXCEPT !.Strategy = RaceStrategy]

\* store.GetActiveSession of trajectory_stop, store.GetSession of the other two, and
\* the fields set on the copy.  trajectory_strategies_record returns without an
\* error when there is no session with the id.
WRead ==
    LET w == conc.writer
    IN /\ \/ w.pc = "called" /\ w.op \in {"Stop", "Summarize"}
          \/ w.pc = "recorded" /\ w.op = "Record"
       /\ IF w.op = "Stop" /\ GetActiveSessionErr(sessions, active) # ErrNone
          THEN conc' = [conc EXCEPT !.writer.pc = "done",
                                    !.writer.err = ErrNoActiveToStop]
          ELSE IF w.op # "Stop" /\ ~HasSession(sessions, w.id)
          THEN conc' = [conc EXCEPT !.writer.pc = "done",
                                    !.writer.err = IF w.op = "Record" THEN ErrNone
                                                   ELSE ErrSessionNotFound]
          ELSE LET id == IF w.op = "Stop" THEN active ELSE w.id
               IN conc' = [conc EXCEPT
                              !.writer.pc = "read",
                              !.writer.id = id,
                              !.writer.session = WriterCopy(w, SessionOf(sessions, id))]
       /\ UNCHANGED <<usage, active, sessions, files, store, clock, last, located, aw,
                      result>>

\* store.UpdateSession with the copy; trajectory_strategies_record ignores its error
WWrite ==
    LET w == conc.writer
        r == UpdateSession(sessions, w.session)
    IN /\ w.pc = "read"
       /\ sessions' = r.sessions
       /\ conc' = [conc EXCEPT !.writer.pc = IF w.op = "Stop" /\ r.err = ErrNone
                                             THEN "written" ELSE "done",
                               !.writer.err = IF w.op = "Record" THEN ErrNone ELSE r.err]
       /\ UNCHANGED <<usage, active, files, store, clock, last, located, aw,
                      result>>

\* handleTrajectoryStop: store.ClearActiveSession
WClear ==
    /\ conc.writer.pc = "written"
    /\ active' = NoActive
    /\ conc' = [conc EXCEPT !.writer.pc = "done"]
    /\ UNCHANGED <<usage, sessions, files, store, clock, last, located, aw,
                   result>>

\* the tool call is answered, and the server reads the next request
WAnswer ==
    LET w == conc.writer
    IN /\ w.pc = "done"
       /\ result' = Returned(w.op, w.id, w.err)
       /\ conc' = [conc EXCEPT !.writer = WriterIdle]
       /\ UNCHANGED <<usage, active, sessions, files, store, clock, last, located, aw>>

(***************************************************************************)
(* The recording specification: recordings are started, stopped and        *)
(* deleted, the active marker is set and cleared, and exports are          *)
(* imported.                                                               *)
(***************************************************************************)
NextRecord ==
    \/ \E taskPrompt \in StartPrompts : TrajectoryStart(taskPrompt)
    \/ StartGetActive
    \/ StartCreate
    \/ StartSetActive
    \/ \E score \in StopScores : WCall("Stop", "", score, <<>>)
    \/ WRead
    \/ WWrite
    \/ WClear
    \/ WAnswer
    \/ \E i \in 1..MaxStarts : DoSetActive(Ulids[i])
    \/ DoClearActive
    \/ \E i \in 1..MaxStarts : DoDeleteSession(Ulids[i])
    \/ \E lines \in ImportFiles : DoImport(lines)

SpecRecord == InitRecord /\ [][NextRecord]_vars

(***************************************************************************)
(* The session specification: the tools of a recording (start, stop,       *)
(* score, summarize, strategy record) are called, one call after the       *)
(* other, while the hook posts the steps, one post after the other.        *)
(***************************************************************************)
\* the hook, which waits for the answer to a post before it sends the next
LifePosters == {1}

\* the session specification starts at most LifeStarts recordings
LifeStarts == 1

\* what the tools of the session specification are called with; -1 is no score
LifeStopScores == {-1, 80, 150}
LifeScores == {80, 150}
LifeSummaries == {<<>>, <<"done">>}
\* the session_id of a tool call: the id of a recording that was started, or none
LifeIds == {Ulids[i] : i \in 1..LifeStarts} \cup {""}
LifePosts ==
    { Post("", JsonNone, JsonNone),
      Post("Bash", JsonNone, JsonNone),
      Post("Read", FileInput("notes.md"), JsonNone) }

InitLife ==
    /\ files \in [{DocPath} -> {DocMin2}]
    /\ sessions = <<>>
    /\ store = <<>>
    /\ clock = 1
    /\ last = NoCall
    /\ located = <<>>
    /\ aw = AwIdle
    /\ conc = [start |-> [steps |-> 0],
               procs |-> [c \in LifePosters |-> PostIdle],
               writer |-> WriterIdle]
    /\ usage = NoUsage
    /\ active = NoActive
    /\ result = NoResult

NextLife ==
    \/ clock <= LifeStarts /\ TrajectoryStart(<<"find", "sources">>)
    \/ StartGetActive
    \/ StartCreate
    \/ StartSetActive
    \/ \E id \in LifeIds, score \in LifeScores : TrajectoryScore(id, score)
    \/ \E score \in LifeStopScores : WCall("Stop", "", score, <<>>)
    \/ \E id \in LifeIds, summary \in LifeSummaries : WCall("Summarize", id, -1, summary)
    \/ \E id \in LifeIds : WCall("Record", id, -1, <<>>)
    \/ WUsage
    \/ WRead
    \/ WWrite
    \/ WClear
    \/ WAnswer
    \/ \E c \in LifePosters, payload \in LifePosts :
          /\ \A i \in 1..Len(sessions) : Len(sessions[i].Steps) < MaxSteps
          /\ SPost(c, payload)
    \/ \E c \in LifePosters : SGetActive(c)
    \/ \E c \in LifePosters : SAppend(c)
    \/ \E c \in LifePosters : SLoad(c)
    \/ \E c \in LifePosters : SUpdate(c)
    \/ \E c \in LifePosters : SAnswer(c)

SpecLife == InitLife /\ [][NextLife]_vars

(***************************************************************************)
(* The race specification: while two step posts are handled, one tool call *)
(* of the MCP server writes the session they are about.                    *)
(***************************************************************************)
\* the tool calls: the tool and, for trajectory_stop, the score (-1: none)
WriterCalls == {<<"Stop", -1>>, <<"Stop", 80>>, <<"Summarize", -1>>, <<"Record", -1>>}

InitRace ==
    /\ files = [p \in {DocPath} |-> DocMin2]
    /\ sessions = <<StepSession>>
    /\ active = "s1"
    /\ store = <<>>
    /\ clock = 1
    /\ last = NoCall
    /\ located = <<>>
    /\ aw = AwIdle
    /\ usage = NoUsage
    /\ result = NoResult
    /\ conc = [start |-> [steps |-> Len(StepSession.Steps)],
               procs |-> [c \in Callers |-> PostIdle],
               writer |-> WriterIdle]

NextRace ==
    \/ NextSteps
    \/ \E call \in WriterCalls :
          WCall(call[1], IF call[1] = "Stop" THEN "" ELSE "s1", call[2], RaceSummary)
    \/ WUsage
    \/ WRead
    \/ WWrite
    \/ WClear

SpecRace == InitRace /\ [][NextRace]_vars

(***************************************************************************)
(* The curation specification: Analyze is called on buckets of more than   *)
(* three high sessions with different scores, whose task prompts are       *)
(* similar to a degree above, on and below the threshold, with and without *)
(* a summary.                                                              *)
(***************************************************************************)
\* task prompts: the second has similarity 3/5 to the first, the fourth 4/5 to the
\* first and 1/2 to the second, the third 0 to every other
CuratePrompts ==
    { <<"find", "good", "sources", "quickly">>, <<"find", "good", "sources", "fast">>,
      <<"write", "report">>, <<"find", "good", "sources", "quickly", "now">> }

\* the buckets of MaxCurate high sessions; the scores fall by 0.02 from 0.99 in the
\* order of the keys
CurateCorpora ==
    { [i \in 1..MaxCurate |->
          Session(i, <<"research">>, c[i][1], c[i][2], Scored(101 - 2 * i))] :
      c \in [1..MaxCurate -> CuratePrompts \X {<<>>, <<"done">>}] }

InitCurate ==
    /\ files \in [{DocPath} -> {DocMin2}]
    /\ sessions \in CurateCorpora
    /\ store = <<>>
    /\ clock = 1
    /\ last = NoCall
    /\ located = <<>>
    /\ aw = AwIdle
    /\ conc = Readers(<<>>)
    /\ usage = NoUsage
    /\ active = NoActive
    /\ result = NoResult

SpecCurate == InitCurate /\ [][NextCurate]_vars

(***************************************************************************)
(* The propose-all specification: ProposeAll is called on documents of up  *)
(* to two regions while the search of the store works or fails in a call   *)
(* of Propose.                                                             *)
(***************************************************************************)
\* a review region and a research region, two sessions each
DocReviewFirst == Join(<< <<StartReviewMin2>>, <<"b">>, <<EndMarker>>, <<"#">>,
                          <<StartResearchMin2>>, <<"a">>, <<EndMarker>>, <<>> >>, NL)

ProposeAllDocs == {DocMin2, DocMin2Two, DocHistory, DocReviewFirst, DocNoRegion,
                   DocUnclosed}
ProposeAllCorpora == {<<>>, CorpusTwo, CorpusBoth, CorpusSeven}
InitProposeAll ==
    /\ files \in [{DocPath} -> ProposeAllDocs]
    /\ sessions \in ProposeAllCorpora
    /\ store = <<>>
    /\ clock = 1
    /\ last = NoCall
    /\ located = <<>>
    /\ aw = AwIdle
    /\ conc = Readers(<<>>)
    /\ usage = NoUsage
    /\ active = NoActive
    /\ result = NoResult

NextProposeAll ==
    \/ \E u1 \in FreshUlids, u2 \in FreshUlids : u1 # u2 /\ DoProposeAll(DocPath, <<u1, u2>>)
    \/ RSearch
    \/ RSearchFails
    \/ RGet
    \/ \E i \in 1..Len(result.proposals), newContent \in NewContents :
          SaveProposed(i, newContent)

SpecProposeAll == InitProposeAll /\ [][NextProposeAll]_vars

(***************************************************************************)
(* The pattern specification: the patterns are extracted from cohorts of   *)
(* up to MaxCohort sessions that differ in their steps.                    *)
(***************************************************************************)
\* a step of a session
Step(tool, input) == [ToolName |-> tool, InputSummary |-> input, OutputSummary |-> ""]

\* the steps of the sessions of a cohort: none; a write and then a read of the path;
\* one read before a write; two reads before two writes of one path; three reads and
\* no write; a write, another step and a write, six steps in all
StepKinds ==
    { <<>>,
      <<Step("Write", "a.go"), Step("Read", "cat 'a.go'")>>,
      <<Step("Read", "a.go"), Step("Write", "b.go")>>,
      <<Step("Read", "a.go"), Step("Grep", "b.go"), Step("Write", "a.go"),
        Step("Edit", "a.go")>>,
      <<Step("Grep", "a.go"), Step("Read", "b.go"), Step("WebSearch", "go")>>,
      <<Step("Write", "a.go"), Step("Bash", "test"), Step("Write", "b.go"),
        Step("Bash", "test"), Step("Bash", "test"), Step("Bash", "test")>> }

PatternCorpora ==
    { [i \in 1..Len(kinds) |->
          [Session(i, <<"research">>, <<"find", "sources">>, <<"done">>, Scored(90))
              EXCEPT !.Steps = kinds[i]]] :
      kinds \in UNION {[1..n -> StepKinds] : n \in 0..MaxCohort} }

InitPatterns ==
    /\ files \in [{DocPath} -> {DocMin2}]
    /\ sessions \in PatternCorpora
    /\ store = <<>>
    /\ clock = 1
    /\ last = NoCall
    /\ located = <<>>
    /\ aw = AwIdle
    /\ conc = NoCallers
    /\ usage = NoUsage
    /\ active = NoActive
    /\ result = NoResult

\* a.extractPatterns(high, true) on the sessions of the bucket as the high cohort
DoExtractPatterns ==
    /\ result.op = "none"
    /\ result' = [op |-> "Patterns", err |-> ErrNone, proposals |-> <<>>,
                  patterns |-> extractPatterns(sessions)]
    /\ UNCHANGED <<usage, active, conc, sessions, files, store, clock, last, located, aw>>

NextPatterns == DoExtractPatterns

SpecPatterns == InitPatterns /\ [][NextPatterns]_vars

(***************************************************************************)
(* Properties.  What the text of the specification calls a region is       *)
(* stated here on the lines of the document directly, without the scanner. *)
(***************************************************************************)
LegalTransitions == {<<OptStatusProposed, OptStatusAccepted>>,
                     <<OptStatusProposed, OptStatusRejected>>,
                     <<OptStatusAccepted, OptStatusRolledBack>>}

\* the lines of a document, line breaks removed
DocLines(fs, filePath) == Split(fs[filePath], NL)

\* the label a start marker carries
LabelOf(marker) == IF marker \in {StartResearch, StartResearchMin2} THEN "research"
                   ELSE IF marker \in {StartReview, StartReviewMin2} THEN "review" ELSE ""

\* line is the start marker line of a region labelled tag
IsStartLine(line, tag) ==
    \E k \in 1..Len(line) : line[k] \in optimizeStartPattern /\ LabelOf(line[k]) = tag

\* line is an end marker line
IsEndLine(line) ==
    /\ \E k \in 1..Len(line) : line[k] = EndMarker
    /\ \A k \in 1..Len(line) : line[k] \notin optimizeStartPattern

\* the start line of the first region labelled tag, 0 when no line starts one
FirstRegionStart(lines, tag) ==
    LET starts == {i \in 1..Len(lines) : IsStartLine(lines[i], tag)}
    IN IF starts = {} THEN 0 ELSE CHOOSE i \in starts : \A j \in starts : i <= j

\* the end marker line that closes the region started at line s
RegionEnd(lines, s) ==
    LET ends == {j \in (s + 1)..Len(lines) : IsEndLine(lines[j])}
    IN IF ends = {} THEN 0 ELSE CHOOSE j \in ends : \A k \in ends : j <= k

\* the markers of the document pair up: the scanner accepts it
WellFormed(fs, filePath) == FindTargets(fs, filePath).err = ErrNone

\* the record's previous content is the content FindTargets returns for its region
PreviousIsRegionContent(fs, rec) ==
    LET found == FindTargets(fs, rec.TargetFile)
        t == FirstWithTag(found.targets, rec.Tag)
    IN found.err = ErrNone /\ t # 0 /\ rec.PreviousContent = found.targets[t].Content

\* C1: every change of a stored record's status is proposed -> accepted,
\* proposed -> rejected or accepted -> rolled_back, under Save, Apply, Reject and
\* Rollback alike.
C1_OnlyLegalTransitions ==
    [][\A id \in DOMAIN store \cap DOMAIN store' :
          store'[id].Status # store[id].Status
             => <<store[id].Status, store'[id].Status>> \in LegalTransitions]_vars

\* C2: Apply and Reject on a record that is not proposed fail with NotProposed,
\* Rollback on a record that is not accepted fails with NotApplied, and the store
\* and the document are then as before the call: the call returns at the test of
\* the status it read, and neither that step nor the ones before and after it
\* change the store or the document.
C2_IllegalTransitionRefused ==
    [][\A c \in Servers :
          LET proc == conc.procs[c]
              after == conc'.procs[c]
          IN /\ (CGet(c) /\ proc.id \in DOMAIN store) =>
                  /\ (proc.op \in {"Apply", "Reject"}
                      /\ store[proc.id].Status # OptStatusProposed)
                        => after = Return(proc, ErrOptimizationNotProposed)
                  /\ (proc.op = "Rollback" /\ store[proc.id].Status # OptStatusAccepted)
                        => after = Return(proc, ErrOptimizationNotApplied)
             /\ (proc.pc \in {"idle", "get", "done"} /\ after # proc)
                  => (store' = store /\ files' = files)
             /\ CAnswer(c) => last' = [op |-> proc.op, id |-> proc.id, err |-> proc.err]]_vars

\* an Apply of a rejected record was refused
C2_Witness ==
    /\ last.op = "Apply" /\ last.err = ErrOptimizationNotProposed
    /\ last.id \in DOMAIN store
    /\ store[last.id].Status = OptStatusRejected

\* C3: a successful Apply replaces the body of the first region that carries the
\* record's label in the document as it is when Apply reads it, sets the status to
\* accepted and stamps applied_at with the time of the call; nothing else changes.
C3_ApplyRelocates ==
    [][\A c \in Servers :
          LET proc == conc.procs[c]
              after == conc'.procs[c]
              rec == proc.record
              lines == DocLines(files, rec.TargetFile)
              s == FirstRegionStart(lines, rec.Tag)
              e == RegionEnd(lines, s)
          IN /\ (CRead(c) /\ proc.op = "Apply" /\ after.pc = "write") =>
                  /\ s # 0 /\ e # 0
                  /\ after.content = Join(SubSeq(lines, 1, s) \o Split(rec.NewContent, NL)
                                          \o SubSeq(lines, e, Len(lines)), NL)
                  /\ store' = store /\ files' = files
             /\ (proc.op = "Apply" /\ proc.pc = "write" /\ after.pc = "update") =>
                  /\ files' = [files EXCEPT ![rec.TargetFile] = proc.content]
                  /\ store' = store
             /\ (CUpdate(c, "none") /\ proc.op = "Apply") =>
                  /\ after = Return(proc, ErrNone)
                  /\ files' = files
                  /\ store' = [store EXCEPT ![proc.id] =
                         [store[proc.id] EXCEPT !.Status = OptStatusAccepted,
                                                !.AppliedAt = clock]]]_vars

\* C4: for a proposed record whose previous content is the region content
\* FindTargets returns, Apply followed at once by Rollback succeeds, leaves the
\* record rolled_back with rolled_back_at stamped, and leaves the document
\* byte for byte as it was before Apply.
C4_ApplyRollbackRestores ==
    \A id \in DOMAIN store :
       LET rec == store[id]
           a == Apply(store, files, clock, id, "none")
           r == Rollback(a.store, a.fs, clock, id, "none")
       IN (rec.Status = OptStatusProposed /\ PreviousIsRegionContent(files, rec))
          => /\ a.err = ErrNone /\ r.err = ErrNone
             /\ r.store[id].Status = OptStatusRolledBack
             /\ r.store[id].RolledBackAt = clock
             /\ r.fs = files

\* C5: the cycle apply, rollback, apply, rollback on a record restores the exact
\* original document bytes.
C5_CycleRestores ==
    \A id \in DOMAIN store :
       LET rec == store[id]
           a1 == Apply(store, files, clock, id, "none")
           r1 == Rollback(a1.store, a1.fs, clock, id, "none")
           a2 == Apply(r1.store, r1.fs, clock, id, "none")
           r2 == Rollback(a2.store, a2.fs, clock, id, "none")
       IN (rec.Status = OptStatusProposed /\ PreviousIsRegionContent(files, rec))
          => r2.fs = files

\* C6: a stored record keeps its identity and its previous content under every
\* later call, a second Save with its id included.
C6_IdentityAndPreviousFixed ==
    [][\A id \in DOMAIN store :
          /\ id \in DOMAIN store'
          /\ store'[id].ID = store[id].ID
          /\ store'[id].PreviousContent = store[id].PreviousContent]_vars

\* C10: when the document parses and no line starts a region with the record's
\* label, Apply (of a proposed record) and Rollback (of an accepted record) fail
\* with TargetNotFound and change neither the store nor the document: the call
\* returns when FindTargets has scanned such a document, and no step up to there
\* changes the store or the document.
C10_TargetNotFound ==
    [][\A c \in Servers :
          LET proc == conc.procs[c]
              after == conc'.procs[c]
              rec == proc.record
              absent == /\ rec.TargetFile \in DOMAIN files
                        /\ WellFormed(files, rec.TargetFile)
                        /\ FirstRegionStart(DocLines(files, rec.TargetFile), rec.Tag) = 0
          IN /\ (CFind(c) /\ absent) =>
                  /\ rec.Status = IF proc.op = "Apply" THEN OptStatusProposed
                                  ELSE OptStatusAccepted
                  /\ after = Return(proc, ErrTargetNotFound)
             /\ (proc.pc \in {"idle", "get", "find"} /\ after # proc)
                  => (store' = store /\ files' = files)]_vars

\* a Rollback of an accepted record found no region with its label
C10_Witness ==
    /\ last.op = "Rollback" /\ last.err = ErrTargetNotFound
    /\ store[last.id].Status = OptStatusAccepted
    /\ WellFormed(files, DocPath)

\* the target is one FindTargets returns for the document as it is now
Fresh(fs, target) ==
    LET found == FindTargets(fs, DocPath)
    IN \E i \in 1..Len(found.targets) : found.targets[i] = target

\* the target's start and end lines are the marker lines of a region with its tag
\* in the document as it is now
Coincides(fs, target) ==
    LET lines == DocLines(fs, DocPath)
    IN /\ target.StartLine \in 1..Len(lines)
       /\ target.EndLine \in 1..Len(lines)
       /\ IsStartLine(lines[target.StartLine], target.Tag)
       /\ RegionEnd(lines, target.StartLine) = target.EndLine
       /\ \A k \in (target.StartLine + 1)..(target.EndLine - 1) :
             \A a \in 1..Len(lines[k]) : lines[k][a] \notin optimizeStartPattern

\* C7: a successful ReplaceTarget with a target just located leaves every line up
\* to and including the start marker, and every line from the end marker on, as
\* they were and where they were; only the lines between the two are new.  (The
\* lines are those of the text ReplaceTarget read; the rename puts the text built
\* from them in place.)
C7_ReplaceKeepsOutside ==
    [][/\ \A i \in 1..Len(located), newContent \in ParserContents, failAt \in AwFailures :
             (last'.op = "Replace" /\ PReplace(i, newContent, failAt)
              /\ Fresh(files, located[i])) =>
                LET pre == DocLines(files, DocPath)
                    post == Split(aw'.content, NL)
                    t == located[i]
                    n == Len(Split(newContent, NL))
                IN /\ aw'.pc = "create" /\ aw'.path = DocPath
                   /\ Len(post) = t.StartLine + n + (Len(pre) - t.EndLine + 1)
                   /\ SubSeq(post, 1, t.StartLine) = SubSeq(pre, 1, t.StartLine)
                   /\ SubSeq(post, t.StartLine + 1, t.StartLine + n)
                         = Split(newContent, NL)
                   /\ SubSeq(post, t.StartLine + n + 1, Len(post))
                         = SubSeq(pre, t.EndLine, Len(pre))
       /\ (WRename /\ aw'.success) => files' = [files EXCEPT ![aw.path] = aw.content]
       /\ (WReturn /\ aw.success) => (last'.err = ErrNone /\ files' = files)]_vars

\* the second region of DocTwo was replaced and its first region, the text between
\* the regions and all four marker lines are as in DocTwo
C7_Witness ==
    /\ last.op = "Replace" /\ last.err = ErrNone
    /\ files[DocPath] = Join(<< <<StartResearch>>, <<"a">>, <<EndMarker>>, <<"#">>,
                                <<StartReview>>, <<"n">>, <<EndMarker>> >>, NL)

\* C8: ReplaceTarget with a target whose start and end lines are no longer the
\* marker lines of its region fails and leaves the document unchanged.
C8_StaleRegionRefused ==
    [][\A i \in 1..Len(located), newContent \in ParserContents, failAt \in AwFailures :
          (last'.op = "Replace" /\ PReplace(i, newContent, failAt)
           /\ ~Coincides(files, located[i]))
             => (last'.err # ErrNone /\ aw' = AwIdle /\ files' = files)]_vars

\* C9: the document changes in one step only, the rename, and then from the
\* complete old content to the complete new content; a failed atomicWrite returns
\* with the document untouched, and no temp file is left when atomicWrite returns.
C9_AtomicWrite ==
    /\ [][files' # files =>
             /\ aw.pc = "rename" /\ aw'.success
             /\ files' = [files EXCEPT ![aw.path] = aw.content]]_vars
    /\ [](aw.pc = "done" =>
             /\ ~aw.tmpExists
             /\ aw.success <=> aw.err = ErrNone
             /\ aw.success => files[aw.path] = aw.content)

\* a write failed half way: the temp file holds a part of the new content, the
\* document still holds a complete text with its region
C9_Witness ==
    /\ aw.pc = "cleanup" /\ aw.err = "failed to write temp file"
    /\ aw.tmpExists /\ aw.tmp # aw.content
    /\ WellFormed(files, DocPath)

\* C11: Reject of a proposed record succeeds, sets the record's status to rejected
\* and changes nothing else: the document, the other records and every other field
\* of the record are as before the call.
C11_RejectOnlyStatus ==
    [][\A c \in Servers :
          LET proc == conc.procs[c]
              after == conc'.procs[c]
          IN /\ (CGet(c) /\ proc.op = "Reject" /\ proc.id \in DOMAIN store
                 /\ store[proc.id].Status = OptStatusProposed)
                  => (after.pc = "update" /\ store' = store /\ files' = files)
             /\ (CUpdate(c, "none") /\ proc.op = "Reject") =>
                  /\ after = Return(proc, ErrNone)
                  /\ files' = files
                  /\ store' = [store EXCEPT ![proc.id] =
                         [store[proc.id] EXCEPT !.Status = OptStatusRejected]]]_vars

\* a proposed record with its new content and diff was rejected
C11_Witness ==
    /\ last.op = "Reject" /\ last.err = ErrNone
    /\ store[last.id].Status = OptStatusRejected
    /\ store[last.id].NewContent # <<>> /\ store[last.id].Diff # <<>>

\* C12: Propose and ProposeAll leave the stored records as they are, at every step
\* of theirs; no record they return is retrievable from the store when they return;
\* and a record appears in the store only by a Save with its identifier.
C12_ProposePersistsNothing ==
    [][/\ conc.reader.pc # "idle" => store' = store
       /\ (conc.reader.pc # "idle" /\ conc'.reader.pc = "idle"
              /\ result'.op \in {"Propose", "ProposeAll"})
          => \A i \in 1..Len(result'.proposals) :
                GetOptimization(store', result'.proposals[i].Record.ID).err
                   = ErrOptimizationNotFound
       /\ \A id \in DOMAIN store' \ DOMAIN store :
             last'.op = "Save" /\ last'.id = id]_vars

\* a proposal was handed out, with a record, and the store holds no record
C12_Witness ==
    /\ result.op = "Propose" /\ result.err = ErrNone
    /\ Len(result.proposals) > 0
    /\ result.proposals[1].Record.Status = OptStatusProposed
    /\ store = <<>>

\* the call op(ConcId) made alone on the store st and the files fs
CallAlone(op, st, fs) ==
    IF op = "Apply" THEN Apply(st, fs, clock, ConcId, "none")
    ELSE IF op = "Reject" THEN Reject(st, fs, ConcId)
    ELSE Rollback(st, fs, clock, ConcId, "none")

\* the store, the files and the errors are what the call of caller a followed by
\* the call of caller b produces from the state in which the calls began
IsSerialOutcome(a, b) ==
    LET ra == CallAlone(conc.procs[a].op, conc.start.store, conc.start.files)
        rb == CallAlone(conc.procs[b].op, ra.store, ra.fs)
    IN /\ store = rb.store /\ files = rb.fs
       /\ conc.procs[a].err = ra.err /\ conc.procs[b].err = rb.err

\* C13: when two concurrent calls of Apply, Reject or Rollback on one record have
\* returned, the store, the document and the two results are those of the calls
\* made one after the other in some order.
C13_SerialOutcome ==
    (\A c \in Callers : conc.procs[c].pc = "done")
       => IsSerialOutcome(1, 2) \/ IsSerialOutcome(2, 1)

\* the lines of the document that hold a start marker, and those that hold an end
\* marker only
StartLines(lines) ==
    {i \in 1..Len(lines) : \E k \in 1..Len(lines[i]) : lines[i][k] \in optimizeStartPattern}
EndLines(lines) == {i \in 1..Len(lines) : IsEndLine(lines[i])}

\* every region is closed before the next one opens, none is nested, every start
\* marker has a label: start and end marker lines alternate, a start line first
NonNested(lines) ==
    LET S == StartLines(lines)
        E == EndLines(lines)
    IN /\ Cardinality(S) = Cardinality(E)
       /\ \A i \in S : \E j \in E :
             /\ i < j
             /\ \A m \in (S \cup E) \ {i, j} : m < i \/ m > j
       /\ \A i \in S : \A k \in 1..Len(lines[i]) : lines[i][k] # StartNoTag

\* the k-th smallest element of a set of numbers
Kth(set, k) == CHOOSE x \in set : Cardinality({y \in set : y < x}) = k - 1

\* the minimum number of sessions a start marker asks for, 10 when it names none
MinSessionsOf(marker) == IF marker = StartReview THEN 20
                         ELSE IF marker \in {StartResearchMin2, StartReviewMin2} THEN 2
                         ELSE 10

\* C14: for a document with N well-formed regions that are not nested, FindTargets
\* returns N targets in the order of the document, each with the line numbers of
\* its start and end marker (from 1), its label, its parameters, and as content
\* the lines strictly between its markers.
C14_FindReturnsRegions ==
    LET lines == DocLines(files, DocPath)
        S == StartLines(lines)
    IN (last.op = "Find" /\ NonNested(lines)) =>
          /\ last.err = ErrNone
          /\ Len(located) = Cardinality(S)
          /\ \A k \in 1..Len(located) :
                LET s == Kth(S, k)
                    e == RegionEnd(lines, s)
                    marker == lines[s][FirstIn(lines[s], optimizeStartPattern)]
                IN /\ located[k].StartLine = s
                   /\ located[k].EndLine = e
                   /\ located[k].Tag = LabelOf(marker)
                   /\ located[k].MinSessions = MinSessionsOf(marker)
                   /\ located[k].Content = Join(SubSeq(lines, s + 1, e - 1), NL)

\* the marker lines of the document do not pair up: counted from the top, a start
\* marker line comes second of a pair (a start inside an open region), an end
\* marker line comes first (an end with no open start), or the last start marker
\* line has no end marker line after it
Malformed(lines) ==
    LET S == StartLines(lines)
        E == EndLines(lines)
        Pos(m) == Cardinality({x \in S \cup E : x < m}) + 1
    IN \/ \E m \in S : Pos(m) % 2 = 0
       \/ \E m \in E : Pos(m) % 2 = 1
       \/ Cardinality(S \cup E) % 2 = 1

\* C15: FindTargets fails and returns no target on a document with a start marker
\* that has no end marker, an end marker with no open start, or a start marker
\* inside an open region.  (The failure is the one of the markers, or the one of
\* the scanner when a line it cannot hold comes before the marker at fault.)
C15_MalformedFails ==
    (last.op = "Find" /\ Malformed(DocLines(files, DocPath)))
       => /\ last.err \in {ErrUnpairedMarkers, ErrNestedMarkers, ErrMissingTag,
                           ErrReadingFile}
          /\ last.err = ErrReadingFile
                => \E i \in 1..Len(DocLines(files, DocPath)) :
                      LenBytes(DocLines(files, DocPath)[i]) >= MaxScanTokenSize
          /\ located = <<>>

\* FindTargets refused a document with a region nested in another
C15_Witness ==
    /\ last.op = "Find" /\ last.err = ErrNestedMarkers
    /\ files[DocPath] = DocNested
    /\ located = <<>>

\* the targets FindTargets returns after target i was replaced with newContent
AfterReplace(i, newContent) ==
    LET r == ReplaceTarget(files, DocPath, located[i], newContent, "none")
    IN [replaced |-> r, found |-> FindTargets(r.fs, DocPath)]

\* C16: after FindTargets, replacing any target with the content just found for it
\* and calling FindTargets again gives the same number of targets, with the same
\* labels, parameters and content.
C16_RoundTrip ==
    (last.op = "Find" /\ last.err = ErrNone) =>
       \A i \in 1..Len(located) :
          LET after == AfterReplace(i, located[i].Content)
          IN /\ after.replaced.err = ErrNone
             /\ after.found.err = ErrNone
             /\ Len(after.found.targets) = Len(located)
             /\ \A k \in 1..Len(located) :
                   /\ after.found.targets[k].Tag = located[k].Tag
                   /\ after.found.targets[k].MinSessions = located[k].MinSessions
                   /\ after.found.targets[k].Content = located[k].Content

\* a region with a padded body was located: replacing it with the content found
\* rewrites the document, and the content found again is the same
C16_Witness ==
    /\ last.op = "Find" /\ last.err = ErrNone
    /\ Len(located) = 1
    /\ located[1].Content = <<"a">>
    /\ AfterReplace(1, located[1].Content).replaced.fs # files
    /\ AfterReplace(1, located[1].Content).found.targets[1].Content = <<"a">>

\* the lines that open and that close a region in the compact form
CompactStartLines(lines) ==
    {i \in 1..Len(lines) : \E k \in 1..Len(lines[i]) : lines[i][k] = CompactStart}
CompactEndLines(lines) ==
    {i \in 1..Len(lines) : \E k \in 1..Len(lines[i]) : lines[i][k] = CompactEnd}

\* the regions of both forms are closed one after the other: over all marker
\* lines, opening and closing lines alternate, and a region is closed in its own form
BothFormsPaired(lines) ==
    LET S == StartLines(lines) \cup CompactStartLines(lines)
        E == EndLines(lines) \cup CompactEndLines(lines)
    IN /\ NonNested(lines)
       /\ S \cap E = {}
       /\ Cardinality(S) = Cardinality(E)
       /\ \A i \in S : \E j \in E :
             /\ i < j
             /\ \A m \in (S \cup E) \ {i, j} : m < i \/ m > j
             /\ (i \in CompactStartLines(lines)) <=> (j \in CompactEndLines(lines))

\* C17: FindTargets recognizes the attributed and the compact form of the markers:
\* for a document whose regions, of either form, are well formed it returns one
\* target for each region, in the order of the document, with the region's label.
C17_BothForms ==
    LET lines == DocLines(files, DocPath)
        S == StartLines(lines) \cup CompactStartLines(lines)
    IN (last.op = "Find" /\ BothFormsPaired(lines)) =>
          /\ last.err = ErrNone
          /\ Len(located) = Cardinality(S)
          /\ \A k \in 1..Len(located) :
                /\ located[k].StartLine = Kth(S, k)
                /\ located[k].Tag =
                      IF Kth(S, k) \in CompactStartLines(lines) THEN "research"
                      ELSE LabelOf(lines[Kth(S, k)][FirstIn(lines[Kth(S, k)],
                                                           optimizeStartPattern)])

\* the sessions of the bucket that carry exactly the label and have an outcome
\* score, where no post writes the bucket
ScoredWith(tag) ==
    {i \in 1..Len(sessions) :
        /\ \E t \in 1..Len(sessions[i].Tags) : sessions[i].Tags[t] = tag
        /\ sessions[i].Outcome.set}

\* the sessions of a bucket that carry exactly the label, in the order in which a
\* search finds them
TaggedIn(ss, tag) ==
    SelectSeq(Reverse(ss), LAMBDA s : \E t \in 1..Len(s.Tags) : s.Tags[t] = tag)

\* no session was written between the arrival of the call and its answer
Undisturbed == result.ended = result.began

\* of the sessions Analyze got for the label, those with an outcome score
ScoredGot == {i \in 1..Len(result.byTag) : result.byTag[i].Outcome.set}

\* of the sessions Analyze got for the label, those without an outcome score
UnscoredGot == {i \in 1..Len(result.byTag) : ~result.byTag[i].Outcome.set}

\* of the sessions of the bucket when the call arrived, those with exactly the label
\* and an outcome score
ScoredAtCall ==
    LET tagged == TaggedIn(result.began, result.tag)
    IN {i \in 1..Len(tagged) : tagged[i].Outcome.set}

\* C18: Analyze(label, minSamples) fails with InsufficientData whenever fewer than
\* minSamples sessions with exactly the label have an outcome score, in the bucket
\* as the call found it and among the sessions the call got, whatever the scores and
\* however many sessions have none, and then returns no analysis.  The sessions it
\* gets are the sessions of the bucket with exactly that label when no session is
\* written during the call.
C18_InsufficientData ==
    result.op = "Analyze" =>
       /\ Undisturbed => result.byTag = TaggedIn(result.began, result.tag)
       /\ (\/ Cardinality(ScoredAtCall) < result.minSessions
           \/ Cardinality(ScoredGot) < result.minSessions) =>
             /\ result.err = ErrInsufficientData
             /\ result.analysis = <<>>

\* Analyze has failed on a bucket where the sessions with the label, scored and
\* unscored together, reach the minimum, and a scored one is in the high cohort
C18_Witness ==
    /\ result.op = "Analyze"
    /\ Undisturbed
    /\ result.err = ErrInsufficientData
    /\ result.analysis = <<>>
    /\ UnscoredGot # {}
    /\ \E i \in ScoredGot : result.byTag[i].Outcome.Score >= 75
    /\ Cardinality(ScoredGot) < result.minSessions
    /\ Len(result.byTag) >= result.minSessions

\* C19: a scored session is in the high cohort when its score is at least 0.75, in
\* the low cohort when it is under 0.5, in the medium cohort otherwise; each scored
\* session Analyze got is in exactly one cohort and the three counts add up to the
\* total.  Scores 0.95, 0.85, 0.80, 0.65, 0.55, 0.40, 0.30 give total 7, high 3,
\* low 2.
C19_Cohorts ==
    (result.op = "Analyze" /\ result.err = ErrNone) =>
       LET got == result.byTag
           high == {i \in ScoredGot : got[i].Outcome.Score >= 75}
           low == {i \in ScoredGot : got[i].Outcome.Score < 50}
           medium == {i \in ScoredGot : /\ got[i].Outcome.Score >= 50
                                        /\ got[i].Outcome.Score < 75}
           a == result.analysis
       IN /\ Undisturbed => got = TaggedIn(result.ended, result.tag)
          /\ a.TotalSessions = Cardinality(ScoredGot)
          /\ a.HighScoreSessions = Cardinality(high)
          /\ a.LowScoreSessions = Cardinality(low)
          /\ a.TotalSessions - a.HighScoreSessions - a.LowScoreSessions = Cardinality(medium)
          /\ (result.began = CorpusSeven /\ result.tag = "research") =>
                /\ a.TotalSessions = 7
                /\ a.HighScoreSessions = 3
                /\ a.LowScoreSessions = 2

\* the seven sessions of the example have been analyzed: total 7, high 3, low 2
C19_Witness ==
    /\ result.op = "Analyze"
    /\ result.err = ErrNone
    /\ result.began = CorpusSeven
    /\ result.analysis.TotalSessions = 7
    /\ result.analysis.HighScoreSessions = 3
    /\ result.analysis.LowScoreSessions = 2

\* an analysis of a bucket with a session on each threshold and one in each cohort
C19_WitnessThresholds ==
    /\ result.op = "Analyze"
    /\ result.err = ErrNone
    /\ Undisturbed
    /\ \E i \in ScoredGot : result.byTag[i].Outcome.Score = 75
    /\ \E i \in ScoredGot : result.byTag[i].Outcome.Score = 50
    /\ \E i \in ScoredGot : result.byTag[i].Outcome.Score < 50
    /\ result.analysis.HighScoreSessions = 1
    /\ result.analysis.LowScoreSessions = 1
    /\ result.analysis.TotalSessions = 3

\* an analysis of the two stopped sessions, 0.80 and 0.30, during which the posts
\* wrote their copies without an outcome: one session in all, and it is low
C19_WitnessDisturbed ==
    /\ result.op = "Analyze"
    /\ result.err = ErrNone
    /\ result.began = CorpusStopped
    /\ ~Undisturbed
    /\ result.analysis.TotalSessions = 1
    /\ result.analysis.HighScoreSessions = 0
    /\ result.analysis.LowScoreSessions = 1

\* the cohort of the session Analyze got under the id
CohortGot(id) ==
    CHOOSE c \in {"high", "medium", "low"} :
       \E i \in ScoredGot :
          /\ result.byTag[i].ID = id
          /\ c = (IF result.byTag[i].Outcome.Score >= 75 THEN "high"
                  ELSE IF result.byTag[i].Outcome.Score < 50 THEN "low"
                  ELSE "medium")

\* C20: the curated examples of an analysis hold at most one low-scoring example,
\* at most 3 examples of the high cohort, and no session of the medium cohort.
C20_CuratedBounds ==
    (result.op = "Analyze" /\ result.err = ErrNone) =>
       LET ex == result.analysis.CuratedExamples
       IN /\ \A k \in 1..Len(ex) :
                \E i \in ScoredGot : result.byTag[i].ID = ex[k].SessionID
          /\ Cardinality({k \in 1..Len(ex) : CohortGot(ex[k].SessionID) = "low"}) <= 1
          /\ Cardinality({k \in 1..Len(ex) : CohortGot(ex[k].SessionID) = "high"}) <= 3
          /\ \A k \in 1..Len(ex) : CohortGot(ex[k].SessionID) # "medium"

\* an analysis of a bucket with more than 3 high sessions, a medium one and two low
\* ones with a summary: 3 high examples and one low example were curated
C20_Witness ==
    /\ result.op = "Analyze"
    /\ result.err = ErrNone
    /\ result.analysis.HighScoreSessions > 3
    /\ result.analysis.LowScoreSessions = 2
    /\ result.analysis.TotalSessions > result.analysis.HighScoreSessions + 2
    /\ Len(result.analysis.CuratedExamples) = 4
    /\ Cardinality({k \in 1..4 : result.analysis.CuratedExamples[k].Score >= 75}) = 3
    /\ Cardinality({k \in 1..4 : result.analysis.CuratedExamples[k].Score < 50}) = 1

\* of the sessions Analyze got for the label, the scored ones whose score is under 0.5
LowGot == {i \in ScoredGot : result.byTag[i].Outcome.Score < 50}

\* C21: whenever the low cohort is non-empty, curation selects exactly one example
\* of the low cohort: the first session with a non-empty summary in ascending
\* order of score.
C21_OneLowExample ==
    (result.op = "Analyze" /\ result.err = ErrNone /\ LowGot # {}) =>
       LET ex == result.analysis.CuratedExamples
           got == result.byTag
           lowEx == {k \in 1..Len(ex) : \E i \in LowGot : got[i].ID = ex[k].SessionID}
       IN /\ Cardinality(lowEx) = 1
          /\ \A k \in lowEx : \E i \in LowGot :
                /\ got[i].ID = ex[k].SessionID
                /\ got[i].Summary # <<>>
                /\ \A j \in LowGot :
                      got[j].Summary # <<>> => got[i].Outcome.Score <= got[j].Outcome.Score

\* the scored sessions with the label whose score is at least 0.75
HighWith(tag) == {i \in ScoredWith(tag) : sessions[i].Outcome.Score >= 75}

\* the sessions of the bucket that are among the curated examples
Curated == {i \in 1..Len(sessions) :
               \E k \in 1..Len(result.analysis.CuratedExamples) :
                  result.analysis.CuratedExamples[k].SessionID = sessions[i].ID}

\* the similarity of the task prompts of sessions i and j
PromptSimilarity(i, j) ==
    jaccardSimilarity(tokenize(sessions[i].TaskPrompt), tokenize(sessions[j].TaskPrompt))

\* every pair of T is strictly less similar than the most similar pair of S
LessSimilarThan(T, S) ==
    \E x, y \in S :
       /\ x < y
       /\ \A u, v \in T :
             u < v => PromptSimilarity(u, v).num * PromptSimilarity(x, y).den
                         < PromptSimilarity(x, y).num * PromptSimilarity(u, v).den

\* C22: given high candidates with summaries and equal scores, the examples that
\* curation selects are never more similar than equally-scored examples it could
\* have selected: no other choice of as many candidates has all its pairs less
\* similar than the most similar selected pair.
C22_PrefersDissimilar ==
    (/\ result.op = "Analyze"
     /\ result.err = ErrNone
     /\ \A i, j \in HighWith(result.tag) :
           /\ sessions[i].Summary # <<>>
           /\ sessions[i].Outcome.Score = sessions[j].Outcome.Score) =>
       LET sel == Curated \cap HighWith(result.tag)
       IN \A T \in SUBSET HighWith(result.tag) :
             Cardinality(T) = Cardinality(sel) => ~LessSimilarThan(T, sel)

\* the usage records of the strategy for exactly the label
UsesOf(tag, name) ==
    {k \in DOMAIN usage : usage[k].Tag = tag /\ usage[k].StrategyName = name}

\* the mean score, as a fraction, of the scored usages of the strategy for the label
MeanOf(tag, name) ==
    LET scored == {k \in UsesOf(tag, name) : usage[k].Score > 0}
    IN IF scored = {} THEN [num |-> 0, den |-> 1]
       ELSE [num |-> SumUsageScores(usage, scored), den |-> Cardinality(scored)]

\* the declared strategies, by position, with at least 2 usages for the label
Qualified ==
    {i \in 1..Len(result.strategies) :
        Cardinality(UsesOf(result.tag, result.strategies[i])) >= 2}

\* C23: under policy recommend the strategy selected is, among the declared
\* strategies with at least 2 recorded usages for the label, one with the highest
\* mean score; when no declared strategy has 2 usages, the first declared strategy
\* is selected with the justification that there is no performance data yet.
C23_Recommend ==
    (result.op = "Select" /\ result.mode = "recommend" /\ result.err = ErrNone) =>
       IF Qualified = {}
       THEN /\ result.selected.Name = result.strategies[1]
            /\ result.reason = ReasonDefault
       ELSE \E i \in Qualified :
               /\ result.selected.Name = result.strategies[i]
               /\ \A j \in Qualified :
                     MeanOf(result.tag, result.strategies[j]).num
                           * MeanOf(result.tag, result.strategies[i]).den
                        <= MeanOf(result.tag, result.strategies[i]).num
                              * MeanOf(result.tag, result.strategies[j]).den

\* C24: under policy rotate the strategy selected is the declared strategy with the
\* fewest recorded usages for the label, a strategy without usage counting as 0,
\* ties going to the strategy declared first.
C24_Rotate ==
    (result.op = "Select" /\ result.mode = "rotate" /\ result.err = ErrNone) =>
       \E i \in 1..Len(result.strategies) :
          /\ result.selected.Name = result.strategies[i]
          /\ \A j \in 1..Len(result.strategies) :
                /\ Cardinality(UsesOf(result.tag, result.strategies[i]))
                      <= Cardinality(UsesOf(result.tag, result.strategies[j]))
                /\ j < i => Cardinality(UsesOf(result.tag, result.strategies[i]))
                               < Cardinality(UsesOf(result.tag, result.strategies[j]))

\* the usage records of the trajectory for exactly the label
UsagesOfPair(ub, tag, sessionID) ==
    {k \in DOMAIN ub : ub[k].Tag = tag /\ ub[k].SessionID = sessionID}

\* the usage records for exactly the label
UsagesOfLabel(ub, tag) == {k \in DOMAIN ub : ub[k].Tag = tag}

\* C25: after any RecordUsage there is at most one usage record per (label,
\* trajectory id); a RecordUsage for a pair that has a record replaces it, so the
\* usage count of the label grows by at most one per trajectory, and recording the
\* same usage twice equals recording it once.
C25_OneUsagePerPair ==
    [][\A in \in RecordInputs :
          (result'.op = "Record" /\ RecordUsage(in[1], in[2], in[3])) =>
             /\ \A pair \in RecordInputs :
                   Cardinality(UsagesOfPair(usage', pair[1], pair[3])) <= 1
             /\ \E k \in UsagesOfPair(usage', in[1], in[3]) : usage'[k].StrategyName = in[2]
             /\ Cardinality(UsagesOfLabel(usage', in[1]))
                   = Cardinality(UsagesOfLabel(usage, in[1]))
                        + (IF UsagesOfPair(usage, in[1], in[3]) = {} THEN 1 ELSE 0)
             /\ RecordStrategyUsage(usage', [Tag |-> in[1], StrategyName |-> in[2],
                                             SessionID |-> in[3], Score |-> 0,
                                             UsedAt |-> clock']) = usage'
      ]_vars

\* a usage of strategy B has replaced the record of the same label and trajectory,
\* and the label has records of other trajectories
C25_Witness ==
    /\ result.op = "Record"
    /\ result.replaced
    /\ result.name = "B"
    /\ Cardinality(UsagesOfPair(usage, result.tag, result.sessionID)) = 1
    /\ Cardinality(UsagesOfLabel(usage, result.tag)) = 3

\* C26: once a trajectory has both a recorded strategy usage and an outcome score,
\* in whichever order the two were written, the usage record carries that score
\* and the mean of the strategy includes it.
C26_UsageCarriesScore ==
    ServerIdle =>
       \A k \in DOMAIN usage : \A i \in 1..Len(sessions) :
          (sessions[i].ID = usage[k].SessionID /\ sessions[i].Outcome.set) =>
             /\ usage[k].Score = sessions[i].Outcome.Score
             /\ sessions[i].Outcome.Score > 0 =>
                   GetStrategyStats(usage, usage[k].Tag)[usage[k].StrategyName].AvgScore.num
                      >= sessions[i].Outcome.Score

\* C29: at most one session is active, and it is a session of the bucket; starting
\* a recording, or setting a different session active, while a session is active
\* fails with "already recording" / ErrSessionAlreadyActive and leaves the active
\* session unchanged; a successful stop leaves no active session.
C29_OneActive ==
    [][/\ Cardinality({i \in 1..Len(sessions') : sessions'[i].ID = active'}) <= 1
       /\ active' # NoActive => HasSession(sessions', active')
       /\ (/\ conc.writer.op = "Start"
           /\ conc.writer.taskPrompt # <<>>
           /\ conc.writer.began.active # NoActive
           /\ WAnswer) =>
              /\ result'.op = "Start"
              /\ result'.err = ErrAlreadyRecording
              /\ active' = conc.writer.began.active
              /\ sessions' = conc.writer.began.sessions
       /\ (/\ result'.op = "SetActive"
           /\ active # NoActive
           /\ \E i \in 1..MaxStarts :
                 /\ Ulids[i] # active
                 /\ HasSession(sessions, Ulids[i])
                 /\ DoSetActive(Ulids[i])) =>
              /\ result'.err = ErrSessionAlreadyActive
              /\ active' = active
       /\ (/\ result'.op = "Stop"
           /\ result'.err = ErrNone
           /\ WAnswer) =>
              active' = NoActive
      ]_vars

\* setting the first session active has failed while the second one is recording
C29_Witness ==
    /\ result.op = "SetActive"
    /\ result.err = ErrSessionAlreadyActive
    /\ Len(sessions) = 2
    /\ active = sessions[2].ID
    /\ result.id = sessions[1].ID
    /\ sessions[2].Status = "recording"

\* a start has failed while a session is recording
C29_WitnessStart ==
    /\ result.op = "Start"
    /\ result.err = ErrAlreadyRecording
    /\ active # NoActive

\* a start is between its CreateSession and its SetActiveSession: the new session
\* is in the bucket as recording and no session is active
C29_WitnessCreated ==
    /\ conc.writer.op = "Start"
    /\ conc.writer.pc = "created"
    /\ active = NoActive
    /\ \E i \in 1..Len(sessions) :
          sessions[i].ID = conc.writer.id /\ sessions[i].Status = "recording"

\* the record passes the filters of the History call
MatchesFilters(r) ==
    /\ result.filePath # "" => r.TargetFile = result.filePath
    /\ result.tag # "" => r.Tag = result.tag

\* C27: History(pathFilter, labelFilter, limit) returns at most limit records, only
\* records whose target path and label match the non-empty filters, ordered from
\* the most recently created to the oldest, and skips no matching record that is
\* more recent than one it returns.
C27_History ==
    result.op = "History" =>
       LET recs == result.records
       IN /\ Len(recs) <= result.limit
          /\ \A k \in 1..Len(recs) :
                /\ recs[k].ID \in DOMAIN store
                /\ recs[k] = store[recs[k].ID]
                /\ MatchesFilters(recs[k])
          /\ \A k, l \in 1..Len(recs) : k < l => recs[k].CreatedAt >= recs[l].CreatedAt
          /\ \A id \in DOMAIN store :
                (MatchesFilters(store[id]) /\ \A k \in 1..Len(recs) : recs[k].ID # id) =>
                   \A k \in 1..Len(recs) : store[id].CreatedAt <= recs[k].CreatedAt

\* the lines of a diff after its three header lines, without the empty piece behind
\* the last line break
DiffBody(diff) ==
    LET lines == Split(diff, NL)
    IN SubSeq(lines, 4, Len(lines) - 1)

\* the lines of the diff body that carry the prefix, without the prefix
DiffLines(diff, prefix) ==
    LET marked == SelectSeq(DiffBody(diff), LAMBDA l : Len(l) > 0 /\ l[1] = prefix)
    IN [i \in 1..Len(marked) |-> Tail(marked[i])]

\* C28: for every previous content and new content, the diff stored by Save holds
\* every line of the previous content in order as a removed line and every line of
\* the new content in order as an added line, and nothing else, so that both texts
\* are reconstructed from the diff alone.
C28_DiffReproduces ==
    \A id \in DOMAIN store :
       LET r == store[id]
           body == DiffBody(r.Diff)
       IN /\ \A i \in 1..Len(body) : Len(body[i]) > 0 /\ body[i][1] \in {"-", "+"}
          /\ DiffLines(r.Diff, "-") = Split(r.PreviousContent, NL)
          /\ DiffLines(r.Diff, "+") = Split(r.NewContent, NL)
          /\ Join(DiffLines(r.Diff, "-"), NL) = r.PreviousContent
          /\ Join(DiffLines(r.Diff, "+"), NL) = r.NewContent

\* a saved proposal whose previous content has a line that begins with the removed
\* prefix and an empty last line, and whose new content has a line that begins with
\* the added prefix
C28_Witness ==
    \E id \in DOMAIN store :
       /\ store[id].PreviousContent = <<"-", NL>>
       /\ store[id].NewContent = <<NL, "+">>
       /\ Len(DiffLines(store[id].Diff, "-")) = 2
       /\ Len(DiffLines(store[id].Diff, "+")) = 2

\* C30: no acknowledged step is lost under concurrency: when the step posts, of any
\* tool kinds and inputs, were handled concurrently while a session was active and
\* each was answered 200, the session holds exactly as many more steps than before
\* as there were posts.
C30_NoStepLost ==
    (\A c \in Callers : conc.procs[c].pc = "done" /\ conc.procs[c].status = StatusOK) =>
       Len(SessionOf(sessions, "s1").Steps) = conc.start.steps + Cardinality(Callers)

\* C31: every outcome score stored for a trajectory lies in [0,1], whichever
\* operation stored it; a score outside the range is rejected and the trajectory is
\* left unchanged.
C31_ScoreInRange ==
    [][/\ \A i \in 1..Len(sessions') :
             sessions'[i].Outcome.set =>
                (sessions'[i].Outcome.Score >= 0 /\ sessions'[i].Outcome.Score <= 100)
       /\ (result'.op \in {"Score", "Stop"} /\ result'.err = ErrScoreRange) =>
             sessions' = sessions]_vars

\* the fields of a session that scoring leaves alone
Recorded(session) ==
    <<session.Steps, session.Summary, session.Tags, session.Strategy,
      session.LoadedContext>>

\* C32: once a trajectory has been scored, no operation other than re-scoring
\* changes its steps, summary, labels, strategy name or loaded context: they stay as
\* they were under any later step, summarize, strategy-record and stop operation.
C32_ScoredImmutable ==
    [][\A i \in 1..Len(sessions) :
          sessions[i].Outcome.set => Recorded(sessions'[i]) = Recorded(sessions[i])]_vars

\* C40: after any sequence of start, step, score, stop and summarize operations, a
\* session's status is 'scored' if and only if it has an outcome, and the active
\* session never has status 'scored' or 'completed'.
C40_StatusMatchesOutcome ==
    ServerIdle =>
       \A i \in 1..Len(sessions) :
          /\ sessions[i].Status = "scored" <=> sessions[i].Outcome.set
          /\ sessions[i].ID = active => sessions[i].Status \notin {"scored", "completed"}

\* the similarity of the task prompts of two sessions is below 0.6
Below06(s, t) ==
    LET j == jaccardSimilarity(tokenize(s.TaskPrompt), tokenize(t.TaskPrompt))
    IN 5 * j.num < 3 * j.den

RECURSIVE DiverseWalk(_, _, _)
\* the walk of C33 over the candidates in descending score order: a candidate is
\* chosen as diverse when it has a summary and its similarity to every candidate
\* chosen before it is below 0.6, until three are chosen
DiverseWalk(list, i, chosen) ==
    IF i > Len(list) \/ Len(chosen) >= 3 THEN chosen
    ELSE DiverseWalk(list, i + 1,
            IF list[i].Summary # <<>> /\ \A k \in 1..Len(chosen) : Below06(list[i], chosen[k])
            THEN Append(chosen, list[i]) ELSE chosen)

RECURSIVE Backfill(_, _, _)
\* the candidates not chosen are added in score order until three are chosen
Backfill(list, i, chosen) ==
    IF i > Len(list) \/ Len(chosen) >= 3 THEN chosen
    ELSE Backfill(list, i + 1,
            IF \E k \in 1..Len(chosen) : chosen[k].ID = list[i].ID
            THEN chosen ELSE Append(chosen, list[i]))

\* the high cohort of the label in descending score order
HighByScore(tag) ==
    SortByScore(SelectSeq(getSessionsByTag(sessions, tag),
                          LAMBDA s : s.Outcome.set /\ s.Outcome.Score >= 75), -1)

\* C33: when the high cohort has more than 3 trajectories, curation walks them in
\* descending score order and takes a candidate as diverse only if it has a
\* non-empty summary and its Jaccard similarity to every already-chosen example is
\* below 0.6; a candidate with similarity 0.6 or more, or without a summary, is taken
\* only as backfill, in score order, when fewer than 3 diverse candidates exist.
C33_DiverseThenBackfill ==
    (result.op = "Analyze" /\ result.err = ErrNone
       /\ result.analysis.HighScoreSessions > 3) =>
       LET list == HighByScore(result.tag)
           expected == Backfill(list, 1, DiverseWalk(list, 1, <<>>))
           ex == SelectSeq(result.analysis.CuratedExamples, LAMBDA e : e.Score >= 75)
       IN /\ Len(ex) = Len(expected)
          /\ \A k \in 1..Len(ex) : ex[k].SessionID = expected[k].ID

\* the regions of the document in order
RegionsOf(filePath) == FindTargets(files, filePath).targets

\* Propose fails with InsufficientData on the region: fewer scored sessions carry its
\* label than it asks for
Insufficient(target) == Cardinality(ScoredWith(target.Tag)) < target.MinSessions

\* C34: ProposeAll over a document skips exactly the regions whose Propose failed
\* with InsufficientData and still returns proposals for the remaining regions, in
\* order, whereas any other failure of Propose aborts ProposeAll with that error and
\* no results.
C34_InsufficientSkipped ==
    (result.op = "ProposeAll" /\ FindTargets(files, DocPath).err = ErrNone) =>
       LET targets == RegionsOf(DocPath)
           kept == SelectSeq(targets, LAMBDA t : ~Insufficient(t))
       IN IF result.failAt # 0
          THEN result.err = ErrGetSessions /\ result.proposals = <<>>
          ELSE /\ result.err = ErrNone
               /\ Len(result.proposals) = Len(kept)
               /\ \A k \in 1..Len(kept) : result.proposals[k].Target = kept[k]

\* ProposeAll skipped the first region of a document for InsufficientData and
\* returned a proposal for the second
C34_Witness ==
    /\ result.op = "ProposeAll"
    /\ result.failAt = 0
    /\ result.err = ErrNone
    /\ Len(RegionsOf(DocPath)) = 2
    /\ Insufficient(RegionsOf(DocPath)[1])
    /\ Len(result.proposals) = 1
    /\ result.proposals[1].Target = RegionsOf(DocPath)[2]

\* ProposeAll was aborted by a failure of the second Propose after the first had
\* succeeded
C34_WitnessAbort ==
    /\ result.op = "ProposeAll"
    /\ result.failAt = 2
    /\ Len(RegionsOf(DocPath)) = 2
    /\ ~Insufficient(RegionsOf(DocPath)[1])
    /\ result.err = ErrGetSessions
    /\ result.proposals = <<>>

\* the read-type steps of session i before its first write-type step (all its
\* read-type steps when it has no write-type step)
ReadsFirst(i) ==
    LET steps == sessions[i].Steps
        writes == {k \in 1..Len(steps) : steps[k].ToolName \in {"Write", "Edit"}}
        firstWrite == IF writes = {} THEN Len(steps) + 1
                      ELSE CHOOSE k \in writes : \A l \in writes : k <= l
    IN {k \in 1..(firstWrite - 1) : steps[k].ToolName \in {"Read", "Grep", "WebSearch"}}

\* the sessions of the cohort with a read-type step before their first write-type step
Researchers == {i \in 1..Len(sessions) : ReadsFirst(i) # {}}

RECURSIVE TotalReads(_)
TotalReads(S) ==
    IF S = {} THEN 0
    ELSE LET i == CHOOSE i \in S : TRUE
         IN Cardinality(ReadsFirst(i)) + TotalReads(S \ {i})

\* the patterns other than research-before-acting that were emitted
OtherPatterns ==
    {result.patterns[k][1] : k \in 1..Len(result.patterns)} \ {PatternReadFirst}

\* C35: the research-before-acting heuristic emits its pattern for a high cohort
\* exactly when the fraction of trajectories with at least one read-type action
\* before their first write-type action is greater than 0.6 and the mean number of
\* such reads among those trajectories is at least 2; it emits nothing for an empty
\* cohort, whatever the other heuristics emit.
C35_ResearchBeforeActing ==
    result.op = "Patterns" =>
       /\ (\E k \in 1..Len(result.patterns) : result.patterns[k][1] = PatternReadFirst)
             <=> /\ 5 * Cardinality(Researchers) > 3 * Len(sessions)
                 /\ TotalReads(Researchers) >= 2 * Cardinality(Researchers)
       /\ Cardinality({k \in 1..Len(result.patterns) :
                          result.patterns[k][1] = PatternReadFirst}) <= 1
       /\ Len(sessions) = 0 => result.patterns = <<>>

\* the pattern was emitted for a cohort of which 4 of 5 sessions read first, 2 times
\* on average, and no other pattern was emitted with it
C35_Witness ==
    /\ result.op = "Patterns"
    /\ Len(sessions) = 5
    /\ Cardinality(Researchers) = 4
    /\ TotalReads(Researchers) = 8
    /\ \E k \in 1..Len(result.patterns) : result.patterns[k][1] = PatternReadFirst
    /\ OtherPatterns = {}

\* the pattern was not emitted for a cohort of which 3 of 5 sessions read first,
\* while another pattern was
C35_WitnessFraction ==
    /\ result.op = "Patterns"
    /\ Len(sessions) = 5
    /\ Cardinality(Researchers) = 3
    /\ TotalReads(Researchers) >= 6
    /\ \A k \in 1..Len(result.patterns) : result.patterns[k][1] # PatternReadFirst
    /\ OtherPatterns # {}

(***************************************************************************)
(* C36: whenever Apply or Rollback returns an error, the document is the   *)
(* document of before the call and the status of the record is unchanged   *)
(* (a record still proposed never has its new content in the document      *)
(* through an Apply that failed).                                          *)
(***************************************************************************)
C36_FailureLeavesBoth ==
    \A c \in Servers :
       LET proc == conc.procs[c]
       IN (proc.pc = "done" /\ proc.op \in {"Apply", "Rollback"} /\ proc.err # ErrNone)
          => /\ ~proc.renamed
             /\ proc.record # <<>> => store[proc.id].Status = proc.record.Status


(***************************************************************************)
(* C37: UpdateStrategyUsageScore(sessionID, score) sets the score of every *)
(* usage record of the session, one for each label it was recorded under,  *)
(* and changes no other record; with no record of the session it changes   *)
(* nothing and returns no error.                                           *)
(***************************************************************************)
C37_EveryUsageScored ==
    [][\A sessionID \in UsageSessions, score \in UsageScores :
          UsageScore(sessionID, score) =>
          /\ result'.err = ErrNone
          /\ DOMAIN usage' = DOMAIN usage
          /\ \A k \in DOMAIN usage :
                usage'[k] = IF usage[k].SessionID = sessionID
                            THEN [usage[k] EXCEPT !.Score = score]
                            ELSE usage[k]]_vars


(***************************************************************************)
(* C38: the statistics of a label give, for each strategy, as sample count *)
(* the number of usage records of the strategy under exactly that label    *)
(* and as mean the arithmetic mean of the scores of its scored usages, a   *)
(* usage scored 0.0 being a scored usage.                                  *)
(***************************************************************************)
\* the usage records of the strategy under exactly the label of the call
StatsUses(name) ==
    {k \in DOMAIN usage : usage[k].Tag = result.tag /\ usage[k].StrategyName = name}

C38_MeanAndCount ==
    (result.op = "Stats") =>
       \A name \in StrategyNames :
          LET uses == StatsUses(name)
              scored == uses \cap conc.scored
          IN /\ uses # {} => name \in DOMAIN result.stats
             /\ name \in DOMAIN result.stats =>
                  /\ result.stats[name].SessionCount = Cardinality(uses)
                  /\ scored # {} =>
                        result.stats[name].AvgScore.num * Cardinality(scored)
                           = SumUsageScores(usage, scored) * result.stats[name].AvgScore.den


(***************************************************************************)
(* C39: a step acknowledged by the ingestion endpoint is never erased by a *)
(* concurrent write of the whole session: when step posts are handled      *)
(* together with trajectory_stop, trajectory_summarize, a strategy record  *)
(* or an update of the loaded context of the session, the session stored   *)
(* after all of them completed holds the steps and the change of the other *)
(* operation; and no step is appended to a session after its stop has      *)
(* completed.                                                              *)
(***************************************************************************)
\* the posts answered 200
Acked == {c \in Callers : conc.procs[c].pc = "done" /\ conc.procs[c].status = StatusOK}

\* the posts and the tool call have all returned
RaceOver ==
    /\ \A c \in Callers : conc.procs[c].pc = "done"
    /\ conc.writer.pc = "done" /\ conc.writer.err = ErrNone

\* the change of the tool call is in the session
WriterChangeIn(session) ==
    LET w == conc.writer
    IN /\ w.op = "Stop" =>
             /\ session.Status = IF w.score = -1 THEN "completed" ELSE "scored"
             /\ w.score # -1 => session.Outcome = Scored(w.score)
       /\ w.op = "Summarize" => session.Summary = RaceSummary
       /\ w.op = "Record" => session.Strategy = RaceStrategy

\* the markdown files of the acknowledged Read posts are in the loaded context
LoadedIn(session) ==
    \A c \in Acked :
       (/\ conc.procs[c].payload.ToolName = "Read"
        /\ IsMarkdown(inputFilePath(conc.procs[c].payload.ToolInput))) =>
          \E i \in 1..Len(session.LoadedContext) :
             session.LoadedContext[i] = inputFilePath(conc.procs[c].payload.ToolInput)

\* trajectory_stop has returned without an error
StopCompleted ==
    conc.writer.op = "Stop" /\ conc.writer.pc = "done" /\ conc.writer.err = ErrNone

C39_StepSurvivesWrite ==
    /\ [](RaceOver =>
            LET session == SessionOf(sessions, "s1")
            IN /\ Len(session.Steps) = conc.start.steps + Cardinality(Acked)
               /\ WriterChangeIn(session)
               /\ LoadedIn(session))
    /\ [][StopCompleted =>
             Len(SessionOf(sessions', "s1").Steps) <= Len(SessionOf(sessions, "s1").Steps)]_vars


====
